---------------------------- MODULE Spec2Model ----------------------------
(***************************************************************************)
(* A state-machine model of the JSON-file-backed stores of                 *)
(* soylent_red_division: MemoryManager, ReasoningEngine and                *)
(* ValidationEngine, each with its own variables and specifications.       *)
(*                                                                         *)
(* Conventions.                                                            *)
(*  - Enum members are strings spelled like the member ("CREW_SHARED");    *)
(*    their .value is given by the ..Value operators, which is what        *)
(*    to_dict writes and from_dict reads back.                             *)
(*  - uuid.uuid4() is a fresh number taken from a counter.                 *)
(*  - datetime.now() is the variable now, a day count that Tick advances,  *)
(*    for the MemoryManager and the variable minute for the                *)
(*    ReasoningEngine.                                                     *)
(*  - A file is [ok, data]: data is the JSON list, ok is FALSE when the    *)
(*    last json.dump raised part-way and left a truncated document.        *)
(*  - The operations log and the consolidation log are written and never   *)
(*    read back by any operation modelled here; they are left out.         *)
(***************************************************************************)
EXTENDS Integers, Sequences, FiniteSets, TLC

VARIABLES
    now,          \* datetime.now(), in days
    nextId,       \* source of uuid4 values
    memories,     \* memories[i][t]: MemoryManager i's self.memories[t]
    opened,       \* the MemoryManager instances constructed so far
    files,        \* files[t]: memory/<t.value>.json
    ret           \* what the last call returned or raised

memVars == <<now, nextId, memories, opened, files, ret>>

(***************************************************************************)
(* Bounds of the model.                                                    *)
(***************************************************************************)
MaxIds == 3
MaxAccessIds == 2
MaxClock == 8
MaxInstances == 2
\* consolidation_settings['auto_consolidate_threshold'] is 100 in the code
\* (memory_manager.py:163); the model scales it down so that a bucket can
\* cross it within MaxIds stores.
AutoConsolidateThreshold == 2

(***************************************************************************)
(* Program constants.                                                      *)
(***************************************************************************)
ConsolidationIntervalDays == 7
ImportanceThreshold == 5

Instances == 1..MaxInstances

Max(a, b) == IF a >= b THEN a ELSE b
Min(a, b) == IF a <= b THEN a ELSE b

(***************************************************************************)
(* memory_manager.py: enums                                                *)
(***************************************************************************)
MemoryType == {"CREW_SHARED", "AGENT_SPECIFIC", "EXTERNAL_CONSOLIDATED", "SESSION_TEMPORARY"}

\* list(MemoryType): definition order
MemoryTypeList == <<"CREW_SHARED", "AGENT_SPECIFIC", "EXTERNAL_CONSOLIDATED", "SESSION_TEMPORARY">>

MemoryTypeValue(t) ==
    CASE t = "CREW_SHARED" -> "crew_shared"
      [] t = "AGENT_SPECIFIC" -> "agent_specific"
      [] t = "EXTERNAL_CONSOLIDATED" -> "external_consolidated"
      [] t = "SESSION_TEMPORARY" -> "session_temporary"

\* MemoryType(value)
MemoryTypeOf(v) == CHOOSE t \in MemoryType : MemoryTypeValue(t) = v

MemoryAccessLevel == {"READ_ONLY", "READ_WRITE", "ADMIN"}

MemoryAccessLevelValue(l) ==
    CASE l = "READ_ONLY" -> "read_only"
      [] l = "READ_WRITE" -> "read_write"
      [] l = "ADMIN" -> "admin"

\* MemoryAccessLevel(value)
MemoryAccessLevelOf(v) == CHOOSE l \in MemoryAccessLevel : MemoryAccessLevelValue(l) = v

(***************************************************************************)
(* MemoryAccessControl                                                     *)
(***************************************************************************)
access_matrix ==
    [r \in {"brand_author", "writer", "editor", "researcher"} |->
        CASE r = "brand_author" ->
                [t \in MemoryType |-> "ADMIN"]
          [] r = "writer" ->
                [t \in MemoryType |->
                    IF t = "EXTERNAL_CONSOLIDATED" THEN "READ_ONLY" ELSE "READ_WRITE"]
          [] r = "editor" ->
                [t \in MemoryType |->
                    IF t \in {"EXTERNAL_CONSOLIDATED", "SESSION_TEMPORARY"}
                    THEN "READ_ONLY" ELSE "READ_WRITE"]
          [] r = "researcher" ->
                [t \in MemoryType |->
                    IF t = "AGENT_SPECIFIC" THEN "READ_WRITE" ELSE "READ_ONLY"]]

\* a mutant of can_access: 'write' is granted to every level
can_access_write_open(agent_role, memory_type, operation) ==
    IF agent_role \notin DOMAIN access_matrix
    THEN FALSE
    ELSE LET access_level == access_matrix[agent_role][memory_type]
         IN  CASE operation = "read" -> access_level \in {"READ_ONLY", "READ_WRITE", "ADMIN"}
               [] operation = "write" -> access_level \in {"READ_ONLY", "READ_WRITE", "ADMIN"}
               [] operation = "admin" -> access_level = "ADMIN"
               [] OTHER -> FALSE

can_access(agent_role, memory_type, operation) ==
    IF agent_role \notin DOMAIN access_matrix
    THEN FALSE
    ELSE LET access_level == access_matrix[agent_role][memory_type]
         IN  CASE operation = "read" -> access_level \in {"READ_ONLY", "READ_WRITE", "ADMIN"}
               [] operation = "write" -> access_level \in {"READ_WRITE", "ADMIN"}
               [] operation = "admin" -> access_level = "ADMIN"
               [] OTHER -> FALSE

(***************************************************************************)
(* MemoryEntry.to_dict / from_dict                                         *)
(***************************************************************************)
to_dict(m) ==
    [id |-> m.id,
     timestamp |-> m.timestamp,
     memory_type |-> MemoryTypeValue(m.memory_type),
     agent_id |-> m.agent_id,
     content |-> m.content,
     tags |-> m.tags,
     importance |-> m.importance,
     access_level |-> MemoryAccessLevelValue(m.access_level),
     consolidation_candidate |-> m.consolidation_candidate]

from_dict(d) ==
    [id |-> d.id,
     timestamp |-> d.timestamp,
     memory_type |-> MemoryTypeOf(d.memory_type),
     agent_id |-> d.agent_id,
     content |-> d.content,
     tags |-> d.tags,
     importance |-> d.importance,
     access_level |-> MemoryAccessLevelOf(d.access_level),
     consolidation_candidate |-> d.consolidation_candidate]


\* index of the first element json.dump cannot encode, 0 when there is none
FirstUnserialisable(ms) ==
    LET bad == {k \in 1..Len(ms) : ~ms[k].content.serialisable}
    IN  IF bad = {} THEN 0 ELSE CHOOSE k \in bad : \A j \in bad : k <= j

\* the file _save_memory leaves: the whole list, or, when json.dump raises on
\* an entry, the document truncated before that entry (the except clause only
\* logs)
_save_memory(ms) ==
    LET k == FirstUnserialisable(ms)
    IN  IF k = 0
        THEN [ok |-> TRUE, data |-> [j \in 1..Len(ms) |-> to_dict(ms[j])]]
        ELSE [ok |-> FALSE, data |-> [j \in 1..(k - 1) |-> to_dict(ms[j])]]

\* _load_memory of a well-formed file (a file that does not exist is the
\* empty list)
_load_memory(f) == [k \in 1..Len(f.data) |-> from_dict(f.data[k])]

(***************************************************************************)
(* Tags: tuple(sorted(memory.tags)) orders tag strings alphabetically      *)
(***************************************************************************)
TagRank(t) ==
    CASE t = "a" -> 1
      [] t = "b" -> 2
      [] t = "consolidated" -> 3

RECURSIVE InsertTag(_, _)
InsertTag(t, s) ==
    IF s = <<>> THEN <<t>>
    ELSE IF TagRank(t) < TagRank(Head(s)) THEN <<t>> \o s
    ELSE <<Head(s)>> \o InsertTag(t, Tail(s))

RECURSIVE sorted_tags(_)
sorted_tags(tags) ==
    IF tags = <<>> THEN <<>>
    ELSE InsertTag(Head(tags), sorted_tags(Tail(tags)))

Range(s) == {s[k] : k \in 1..Len(s)}

(***************************************************************************)
(* MemoryManager._auto_consolidate: marks, in memory only, the entries     *)
(* older than the consolidation interval and below the importance          *)
(* threshold.                                                              *)
(***************************************************************************)
_auto_consolidate(ms, t) ==
    [k \in 1..Len(ms) |->
        IF ms[k].timestamp < t - ConsolidationIntervalDays
           /\ ms[k].importance < ImportanceThreshold
        THEN [ms[k] EXCEPT !.consolidation_candidate = TRUE]
        ELSE ms[k]]

(***************************************************************************)
(* MemoryManager._consolidate_similar_memories                             *)
(***************************************************************************)
GroupKey(m) == sorted_tags(m.tags)

\* the keys of the groups dict, in insertion order
RECURSIVE GroupKeys(_, _)
GroupKeys(ms, seen) ==
    IF ms = <<>> THEN <<>>
    ELSE LET k == GroupKey(Head(ms))
         IN  IF k \in seen
             THEN GroupKeys(Tail(ms), seen)
             ELSE <<k>> \o GroupKeys(Tail(ms), seen \cup {k})

GroupOf(ms, key) == SelectSeq(ms, LAMBDA m : GroupKey(m) = key)

MaxImportance(g) == CHOOSE v \in {g[k].importance : k \in 1..Len(g)} :
                        \A k \in 1..Len(g) : g[k].importance <= v

ConsolidatedMemory(g, key, id, t) ==
    [id |-> id,
     timestamp |-> t,
     memory_type |-> g[1].memory_type,
     agent_id |-> "system_consolidation",
     content |-> [kind |-> "similar_memories", original_count |-> Len(g),
                  serialisable |-> TRUE],
     tags |-> key \o <<"consolidated">>,
     importance |-> MaxImportance(g),
     access_level |-> "READ_ONLY",
     consolidation_candidate |-> FALSE]

RECURSIVE ConsolidateGroups(_, _, _, _)
ConsolidateGroups(keys, ms, id, t) ==
    IF keys = <<>> THEN <<>>
    ELSE LET g == GroupOf(ms, Head(keys))
         IN  IF Len(g) > 1
             THEN <<ConsolidatedMemory(g, Head(keys), id, t)>>
                     \o ConsolidateGroups(Tail(keys), ms, id + 1, t)
             ELSE g \o ConsolidateGroups(Tail(keys), ms, id, t)

\* a mutant of _consolidate_similar_memories: every group is kept as it is
_consolidate_similar_memories_keep(ms, id, t) == ms

_consolidate_similar_memories(ms, id, t) ==
    ConsolidateGroups(GroupKeys(ms, {}), ms, id, t)

\* the uuids one _consolidate_similar_memories call draws
MergedGroups(ms) ==
    Cardinality({k \in Range(GroupKeys(ms, {})) : Len(GroupOf(ms, k)) > 1})

Candidates(ms) == SelectSeq(ms, LAMBDA m : m.consolidation_candidate)
NonCandidates(ms) == SelectSeq(ms, LAMBDA m : ~m.consolidation_candidate)

(***************************************************************************)
(* The loop of manual_consolidation over types_to_consolidate.  acc is     *)
(* [mem, files, id, results]: the instance's buckets, the files, the next  *)
(* uuid and the consolidation_results built so far.                        *)
(***************************************************************************)
RECURSIVE ConsolidateTypes(_, _, _)
ConsolidateTypes(types, acc, t) ==
    IF types = <<>> THEN acc
    ELSE LET mem_type == Head(types)
             ms == acc.mem[mem_type]
             candidates == Candidates(ms)
         IN  IF mem_type = "SESSION_TEMPORARY" \/ candidates = <<>>
             THEN ConsolidateTypes(Tail(types), acc, t)
             ELSE LET consolidated == _consolidate_similar_memories(candidates, acc.id, t)
                      after == NonCandidates(ms) \o consolidated
                  IN  ConsolidateTypes(Tail(types),
                        [mem |-> [acc.mem EXCEPT ![mem_type] = after],
                         files |-> [acc.files EXCEPT ![mem_type] = _save_memory(after)],
                         id |-> acc.id + MergedGroups(candidates),
                         results |-> Append(acc.results,
                            [memory_type |-> MemoryTypeValue(mem_type),
                             original_count |-> Len(candidates),
                             consolidated_count |-> Len(consolidated),
                             space_saved |-> Len(candidates) - Len(consolidated)])],
                        t)

(***************************************************************************)
(* retrieve_memory's sort: list.sort(key=(importance, timestamp),          *)
(* reverse=True), which is stable.                                         *)
(***************************************************************************)
KeyLess(a, b) ==
    \/ a.importance < b.importance
    \/ a.importance = b.importance /\ a.timestamp < b.timestamp

\* x goes after every element whose key is not smaller than its own
RECURSIVE InsertDesc(_, _)
InsertDesc(x, s) ==
    IF s = <<>> THEN <<x>>
    ELSE IF KeyLess(Head(s), x) THEN <<x>> \o s
    ELSE <<Head(s)>> \o InsertDesc(x, Tail(s))

RECURSIVE SortDescFrom(_, _)
SortDescFrom(s, acc) ==
    IF s = <<>> THEN acc ELSE SortDescFrom(Tail(s), InsertDesc(Head(s), acc))

sort_desc(s) == SortDescFrom(s, <<>>)

\* _matches_query: json.dumps(content).lower() contains the query; the model
\* has the two queries "note" and "similar"
_matches_query(content, query) ==
    \/ query = "note" /\ content.kind = "note"
    \/ query = "similar" /\ content.kind = "similar_memories"

Ret(op, inst, role, mt, outcome, id, entries, results) ==
    [op |-> op, inst |-> inst, role |-> role, memory_type |-> mt, outcome |-> outcome,
     id |-> id, entries |-> entries, results |-> results]

NoRet == Ret("none", 0, "none", "None", "none", 0, <<>>, <<>>)

EmptyBuckets == [t \in MemoryType |-> <<>>]

(***************************************************************************)
(* MemoryManager.__init__ on the shared project root.  _load_memory runs   *)
(* before self.logger is set, so on a truncated file its except clause     *)
(* raises AttributeError out of the constructor.                           *)
(***************************************************************************)
MemoryManager_init(i) ==
    /\ i \notin opened
    /\ IF \A t \in MemoryType : files[t].ok
       THEN /\ memories' = [memories EXCEPT ![i] = [t \in MemoryType |-> _load_memory(files[t])]]
            /\ opened' = opened \cup {i}
            /\ ret' = Ret("init", i, "none", "None", "ok", 0, <<>>, <<>>)
       ELSE /\ UNCHANGED <<memories, opened>>
            /\ ret' = Ret("init", i, "none", "None", "AttributeError", 0, <<>>, <<>>)
    /\ UNCHANGED <<now, nextId, files>>

(***************************************************************************)
(* MemoryManager.store_memory                                              *)
(***************************************************************************)
store_memory(i, agent_role, memory_type, content, tags, importance) ==
    /\ i \in opened
    /\ IF ~can_access(agent_role, memory_type, "write")
       THEN /\ ret' = Ret("store_memory", i, agent_role, memory_type, "PermissionError", 0, <<>>, <<>>)
            /\ UNCHANGED <<nextId, memories, files>>
       ELSE LET memory_entry ==
                    [id |-> nextId,
                     timestamp |-> now,
                     memory_type |-> memory_type,
                     agent_id |-> agent_role,
                     content |-> content,
                     tags |-> tags,
                     importance |-> importance,
                     access_level |-> "READ_WRITE",
                     consolidation_candidate |-> FALSE]
                appended == Append(memories[i][memory_type], memory_entry)
            IN  /\ files' = [files EXCEPT ![memory_type] = _save_memory(appended)]
                /\ memories' = [memories EXCEPT ![i][memory_type] =
                        IF Len(appended) > AutoConsolidateThreshold
                        THEN _auto_consolidate(appended, now)
                        ELSE appended]
                /\ nextId' = nextId + 1
                /\ ret' = Ret("store_memory", i, agent_role, memory_type, "ok", nextId, <<>>, <<>>)
    /\ UNCHANGED <<now, opened>>

(***************************************************************************)
(* MemoryManager.retrieve_memory.  Without a tag filter and a query the    *)
(* list that is sorted is self.memories[memory_type] itself.               *)
(***************************************************************************)
retrieve_memory(i, agent_role, memory_type, query, tags, limit) ==
    /\ i \in opened
    /\ IF ~can_access(agent_role, memory_type, "read")
       THEN /\ ret' = Ret("retrieve_memory", i, agent_role, memory_type, "PermissionError", 0, <<>>, <<>>)
            /\ UNCHANGED memories
       ELSE LET bucket == memories[i][memory_type]
                byTags == IF tags # <<>>
                          THEN SelectSeq(bucket, LAMBDA m : Range(tags) \cap Range(m.tags) # {})
                          ELSE bucket
                dumpsRaises == query # "None" /\ FirstUnserialisable(byTags) # 0
                byQuery == IF query # "None"
                           THEN SelectSeq(byTags, LAMBDA m : _matches_query(m.content, query))
                           ELSE byTags
                sorted == sort_desc(byQuery)
            IN  IF dumpsRaises
                THEN /\ ret' = Ret("retrieve_memory", i, agent_role, memory_type, "TypeError", 0, <<>>, <<>>)
                     /\ UNCHANGED memories
                ELSE /\ ret' = Ret("retrieve_memory", i, agent_role, memory_type, "ok", 0,
                                   SubSeq(sorted, 1, Min(limit, Len(sorted))), <<>>)
                     /\ memories' = IF tags = <<>> /\ query = "None"
                                    THEN [memories EXCEPT ![i][memory_type] = sorted]
                                    ELSE memories
    /\ UNCHANGED <<now, nextId, opened, files>>

(***************************************************************************)
(* MemoryManager.manual_consolidation; memory_type "None" is the default   *)
(* argument.                                                               *)
(***************************************************************************)
manual_consolidation(i, agent_role, memory_type) ==
    /\ i \in opened
    /\ IF ~can_access(agent_role,
                      IF memory_type = "None" THEN "CREW_SHARED" ELSE memory_type, "admin")
       THEN /\ ret' = Ret("manual_consolidation", i, agent_role, memory_type, "PermissionError", 0, <<>>, <<>>)
            /\ UNCHANGED <<nextId, memories, files>>
       ELSE LET types_to_consolidate ==
                    IF memory_type = "None" THEN MemoryTypeList ELSE <<memory_type>>
                done == ConsolidateTypes(types_to_consolidate,
                            [mem |-> memories[i], files |-> files, id |-> nextId,
                             results |-> <<>>], now)
            IN  /\ memories' = [memories EXCEPT ![i] = done.mem]
                /\ files' = done.files
                /\ nextId' = done.id
                /\ ret' = Ret("manual_consolidation", i, agent_role, memory_type, "ok", 0, <<>>,
                              done.results)
    /\ UNCHANGED <<now, opened>>

(***************************************************************************)
(* MemoryManager.clear_session_memory                                      *)
(***************************************************************************)
clear_session_memory(i) ==
    /\ i \in opened
    /\ memories' = [memories EXCEPT ![i]["SESSION_TEMPORARY"] = <<>>]
    /\ files' = [files EXCEPT !["SESSION_TEMPORARY"] = _save_memory(<<>>)]
    /\ ret' = Ret("clear_session_memory", i, "none", "None", "ok", 0, <<>>, <<>>)
    /\ UNCHANGED <<now, nextId, opened>>

\* time passes between calls
Tick(d) ==
    /\ now + d <= MaxClock
    /\ now' = now + d
    /\ ret' = NoRet
    /\ UNCHANGED <<nextId, memories, opened, files>>

(***************************************************************************)
(* Inputs                                                                  *)
(***************************************************************************)
\* the four roles of the matrix and one role that is not in it
AgentRoles == {"brand_author", "writer", "editor", "researcher", "intruder"}

Note == [kind |-> "note", original_count |-> 0, serialisable |-> TRUE]
\* a dict holding an Enum member, as reasoning_integration._store_decision_memory
\* passes for a CONTENT_STRUCTURE decision
EnumNote == [kind |-> "note", original_count |-> 0, serialisable |-> FALSE]

TickDays == {ConsolidationIntervalDays, ConsolidationIntervalDays + 1}

MemInit ==
    /\ now = 0
    /\ nextId = 1
    /\ opened = {1}
    /\ memories = [i \in Instances |-> EmptyBuckets]
    /\ files = [t \in MemoryType |-> [ok |-> TRUE, data |-> <<>>]]
    /\ ret = NoRet

(***************************************************************************)
(* reasoning_engine.py                                                     *)
(***************************************************************************)
VARIABLES
    plans,                      \* self.plans, in insertion order; plans[k].id = k
    plans_file,                 \* reasoning_cache/execution_plans.json
    decision_log,               \* self.decision_log
    decisions_file,             \* reasoning_cache/decisions_log.json
    content_structure_matrix,   \* DecisionFramework.content_structure_matrix
    minute,                     \* datetime.now() of the engine, in minutes
    planRet                     \* what the last ReasoningEngine call returned

planVars == <<plans, plans_file, decision_log, decisions_file,
              content_structure_matrix, minute, planRet>>

\* create_plan calls and adaptations that took effect, together
MaxPlanOps == 3
MaxDecisions == 2

\* Optional[...] = None
None == -1

PlanStatusValue(st) ==
    CASE st = "DRAFT" -> "draft"
      [] st = "ACTIVE" -> "active"
      [] st = "PAUSED" -> "paused"
      [] st = "COMPLETED" -> "completed"
      [] st = "FAILED" -> "failed"
      [] st = "CANCELLED" -> "cancelled"

StepStatusValue(st) ==
    CASE st = "PENDING" -> "pending"
      [] st = "IN_PROGRESS" -> "in_progress"
      [] st = "COMPLETED" -> "completed"
      [] st = "FAILED" -> "failed"
      [] st = "SKIPPED" -> "skipped"
      [] st = "BLOCKED" -> "blocked"

\* f"{plan_id}_step_{n}", f"{plan.id}_parallel_{n}", f"{plan.id}_quality_{n}"
StepId(plan_id, kind, n) == [plan |-> plan_id, kind |-> kind, n |-> n]

\* a step id no plan has ("nonexistent_step")
MissingStep == StepId(0, "step", 0)

\* None where a step id is expected
NoStepId == StepId(None, "none", None)

\* PlanStep(...): title, description, inputs, outputs and the criteria dicts
\* are carried along unread and are left out
PlanStep(id, step_type, dependencies, estimated_duration, priority) ==
    [id |-> id,
     step_type |-> step_type,
     dependencies |-> dependencies,
     estimated_duration |-> estimated_duration,
     priority |-> priority,
     status |-> "PENDING",
     started_at |-> None,
     completed_at |-> None,
     skip_reason |-> "none"]

ExecutionPlan(plan_id, plan_type, steps, estimated_duration, created_by, t) ==
    [id |-> plan_id,
     plan_type |-> plan_type,
     status |-> "DRAFT",
     steps |-> steps,
     created_by |-> created_by,
     created_at |-> t,
     updated_at |-> t,
     started_at |-> None,
     completed_at |-> None,
     estimated_duration |-> estimated_duration,
     actual_duration |-> 0,
     adaptations |-> <<>>]

_create_content_creation_template(plan_id, created_by, t) ==
    ExecutionPlan(plan_id, "content_creation",
        << PlanStep(StepId(plan_id, "step", 1), "brand_review", <<>>, 10, 10),
           PlanStep(StepId(plan_id, "step", 2), "structure_decision",
                    <<StepId(plan_id, "step", 1)>>, 5, 9),
           PlanStep(StepId(plan_id, "step", 3), "content_creation",
                    <<StepId(plan_id, "step", 2)>>, 45, 8),
           PlanStep(StepId(plan_id, "step", 4), "content_validation",
                    <<StepId(plan_id, "step", 3)>>, 15, 10),
           PlanStep(StepId(plan_id, "step", 5), "quality_gate",
                    <<StepId(plan_id, "step", 4)>>, 5, 10) >>,
        85, created_by, t)

\* a mutant of _create_revision_workflow_template: the first dependency is
\* off by one and names step_0
_create_revision_workflow_template_off(plan_id, created_by, t) ==
    ExecutionPlan(plan_id, "revision_workflow",
        << PlanStep(StepId(plan_id, "step", 1), "feedback_analysis", <<>>, 15, 10),
           PlanStep(StepId(plan_id, "step", 2), "revision_strategy",
                    <<StepId(plan_id, "step", 0)>>, 10, 9),
           PlanStep(StepId(plan_id, "step", 3), "content_revision",
                    <<StepId(plan_id, "step", 2)>>, 30, 8) >>,
        55, created_by, t)

_create_revision_workflow_template(plan_id, created_by, t) ==
    ExecutionPlan(plan_id, "revision_workflow",
        << PlanStep(StepId(plan_id, "step", 1), "feedback_analysis", <<>>, 15, 10),
           PlanStep(StepId(plan_id, "step", 2), "revision_strategy",
                    <<StepId(plan_id, "step", 1)>>, 10, 9),
           PlanStep(StepId(plan_id, "step", 3), "content_revision",
                    <<StepId(plan_id, "step", 2)>>, 30, 8) >>,
        55, created_by, t)

\* a mutant of _create_brand_validation_template: the third step is missing
_create_brand_validation_template_short(plan_id, created_by, t) ==
    ExecutionPlan(plan_id, "brand_validation",
        << PlanStep(StepId(plan_id, "step", 1), "voice_validation", <<>>, 8, 10),
           PlanStep(StepId(plan_id, "step", 2), "persona_validation", <<>>, 5, 9) >>,
        16, created_by, t)

_create_brand_validation_template(plan_id, created_by, t) ==
    ExecutionPlan(plan_id, "brand_validation",
        << PlanStep(StepId(plan_id, "step", 1), "voice_validation", <<>>, 8, 10),
           PlanStep(StepId(plan_id, "step", 2), "persona_validation", <<>>, 5, 9),
           PlanStep(StepId(plan_id, "step", 3), "authenticity_validation", <<>>, 3, 10) >>,
        16, created_by, t)

_create_collaborative_drafting_template(plan_id, created_by, t) ==
    ExecutionPlan(plan_id, "collaborative_drafting",
        << PlanStep(StepId(plan_id, "step", 1), "draft_planning", <<>>, 15, 9),
           PlanStep(StepId(plan_id, "step", 2), "feedback_loop",
                    <<StepId(plan_id, "step", 1)>>, 60, 8),
           PlanStep(StepId(plan_id, "step", 3), "signoff_preparation",
                    <<StepId(plan_id, "step", 2)>>, 10, 7) >>,
        85, created_by, t)

\* self.plan_templates
plan_templates == {"content_creation", "revision_workflow", "brand_validation",
                   "collaborative_drafting"}

TemplatePlan(plan_type, plan_id, created_by, t) ==
    CASE plan_type = "content_creation" ->
            _create_content_creation_template(plan_id, created_by, t)
      [] plan_type = "revision_workflow" ->
            _create_revision_workflow_template(plan_id, created_by, t)
      [] plan_type = "brand_validation" ->
            _create_brand_validation_template(plan_id, created_by, t)
      [] plan_type = "collaborative_drafting" ->
            _create_collaborative_drafting_template(plan_id, created_by, t)

\* PlanStep.to_dict and ExecutionPlan.to_dict
step_to_dict(st) == [st EXCEPT !.status = StepStatusValue(st.status)]

plan_to_dict(plan) ==
    [plan EXCEPT !.status = PlanStatusValue(plan.status),
                 !.steps = [k \in 1..Len(plan.steps) |-> step_to_dict(plan.steps[k])]]

\* _save_plans; the contexts and adaptation data of the model are all
\* JSON-encodable
_save_plans(ps) == [ok |-> TRUE, data |-> [k \in 1..Len(ps) |-> plan_to_dict(ps[k])]]

\* self.plans.get(plan_id): the plan, or NoPlan for None
NoPlan == [id |-> None]

get_plan(ps, plan_id) == IF plan_id \in 1..Len(ps) THEN ps[plan_id] ELSE NoPlan

PlanRet(op, outcome, plan_id, value) ==
    [op |-> op, outcome |-> outcome, plan_id |-> plan_id, value |-> value]

(***************************************************************************)
(* ReasoningEngine.create_plan                                             *)
(***************************************************************************)
create_plan(plan_type, created_by) ==
    /\ IF plan_type \notin plan_templates
       THEN /\ planRet' = PlanRet("create_plan", "ValueError", None, [plan_type |-> plan_type])
            /\ UNCHANGED <<plans, plans_file>>
       ELSE LET plan_id == Len(plans) + 1
                plan == TemplatePlan(plan_type, plan_id, created_by, minute)
            IN  /\ plans' = Append(plans, plan)
                /\ plans_file' = _save_plans(plans')
                /\ planRet' = PlanRet("create_plan", "ok", plan_id, plan)
    /\ UNCHANGED <<decision_log, decisions_file, content_structure_matrix, minute>>

(***************************************************************************)
(* ReasoningEngine.adapt_plan_execution and its seven handlers.  A dict    *)
(* argument is a function from its keys; Get is dict.get.                  *)
(***************************************************************************)
Get(d, k, default) == IF k \in DOMAIN d THEN d[k] ELSE default

Put(d, k, v) == [x \in (DOMAIN d) \cup {k} |-> IF x = k THEN v ELSE d[x]]

EmptyDict == <<>>

\* next((s for s in plan.steps if s.id == step_id), None), as a position; 0 is None
FirstStep(steps, step_id) ==
    IF \E k \in 1..Len(steps) : steps[k].id = step_id
    THEN CHOOSE k \in 1..Len(steps) :
            /\ steps[k].id = step_id
            /\ \A j \in 1..(k - 1) : steps[j].id # step_id
    ELSE 0

InsertByPriority(st, sorted) ==
    LET before == SelectSeq(sorted, LAMBDA x : x.priority >= st.priority)
        after == SelectSeq(sorted, LAMBDA x : x.priority < st.priority)
    IN  before \o <<st>> \o after

RECURSIVE SortStepsFrom(_, _, _)
SortStepsFrom(steps, k, acc) ==
    IF k > Len(steps) THEN acc
    ELSE SortStepsFrom(steps, k + 1, InsertByPriority(steps[k], acc))

\* plan.steps.sort(key=lambda s: s.priority, reverse=True): stable
sort_by_priority(steps) == SortStepsFrom(steps, 1, <<>>)

Handled(ok, plan) == [ok |-> ok, plan |-> plan]

\* Mutant of _reschedule_step: the start time of a step in progress is
\* reset but its status is kept.
_reschedule_step_keep_status(plan, data) ==
    LET k == FirstStep(plan.steps, Get(data, "step_id", NoStepId))
    IN  IF k = 0 THEN Handled(FALSE, plan)
        ELSE LET st == plan.steps[k]
                 prio == Get(data, "priority", None)
                 st1 == IF prio # None THEN [st EXCEPT !.priority = prio] ELSE st
                 st2 == IF st1.status = "IN_PROGRESS"
                        THEN [st1 EXCEPT !.started_at = None]
                        ELSE st1
             IN  Handled(TRUE, [plan EXCEPT !.steps[k] = st2])

_reschedule_step(plan, data) ==
    LET k == FirstStep(plan.steps, Get(data, "step_id", NoStepId))
    IN  IF k = 0 THEN Handled(FALSE, plan)
        ELSE LET st == plan.steps[k]
                 prio == Get(data, "priority", None)
                 st1 == IF prio # None THEN [st EXCEPT !.priority = prio] ELSE st
                 st2 == IF st1.status = "IN_PROGRESS"
                        THEN [st1 EXCEPT !.status = "PENDING", !.started_at = None]
                        ELSE st1
             IN  Handled(TRUE, [plan EXCEPT !.steps[k] = st2])

\* a mutant: the new step's id does not count the steps
_add_parallel_step_same_id(plan, data) ==
    LET step_config == Get(data, "step_config", EmptyDict)
        new_step == PlanStep(StepId(plan.id, "parallel", 0),
                             Get(step_config, "step_type", "parallel_task"),
                             Get(step_config, "dependencies", <<>>),
                             Get(step_config, "estimated_duration", 30),
                             Get(step_config, "priority", 5))
    IN  Handled(TRUE, [plan EXCEPT
            !.steps = Append(@, new_step),
            !.estimated_duration = @ + new_step.estimated_duration])

_add_parallel_step(plan, data) ==
    LET step_config == Get(data, "step_config", EmptyDict)
        new_step == PlanStep(StepId(plan.id, "parallel", Len(plan.steps) + 1),
                             Get(step_config, "step_type", "parallel_task"),
                             Get(step_config, "dependencies", <<>>),
                             Get(step_config, "estimated_duration", 30),
                             Get(step_config, "priority", 5))
    IN  Handled(TRUE, [plan EXCEPT
            !.steps = Append(@, new_step),
            !.estimated_duration = @ + new_step.estimated_duration])

_modify_dependencies(plan, data) ==
    LET k == FirstStep(plan.steps, Get(data, "step_id", NoStepId))
    IN  IF k = 0 THEN Handled(FALSE, plan)
        ELSE Handled(TRUE, [plan EXCEPT
                !.steps[k].dependencies = Get(data, "dependencies", <<>>)])

\* A priority of None cannot be compared: with two steps or more the sort
\* raises TypeError after the priorities have been set, and
\* adapt_plan_execution catches it and returns False.
_adjust_priorities(plan, data) ==
    LET adjustments == Get(data, "adjustments", EmptyDict)
        adjusted == [k \in 1..Len(plan.steps) |->
            LET st == plan.steps[k]
            IN  IF st.id \in DOMAIN adjustments /\ FirstStep(plan.steps, st.id) = k
                THEN [st EXCEPT !.priority = adjustments[st.id]]
                ELSE st]
    IN  IF Len(adjusted) >= 2 /\ \E k \in 1..Len(adjusted) : adjusted[k].priority = None
        THEN Handled(FALSE, [plan EXCEPT !.steps = adjusted])
        ELSE Handled(TRUE, [plan EXCEPT !.steps = sort_by_priority(adjusted)])

_extend_duration(plan, data) ==
    LET k == FirstStep(plan.steps, Get(data, "step_id", NoStepId))
        additional_time == Get(data, "additional_minutes", 0)
    IN  IF k = 0 THEN Handled(FALSE, plan)
        ELSE Handled(TRUE, [plan EXCEPT
                !.steps[k].estimated_duration = @ + additional_time,
                !.estimated_duration = @ + additional_time])

_skip_step(plan, data, t) ==
    LET k == FirstStep(plan.steps, Get(data, "step_id", NoStepId))
    IN  IF k = 0 THEN Handled(FALSE, plan)
        ELSE Handled(TRUE, [plan EXCEPT
                !.steps[k].status = "SKIPPED",
                !.steps[k].skip_reason = Get(data, "reason", "Skipped by adaptation"),
                !.steps[k].completed_at = t])

_add_quality_check(plan, data) ==
    LET target_step_id == Get(data, "target_step_id", NoStepId)
        k == FirstStep(plan.steps, target_step_id)
        quality_step == PlanStep(StepId(plan.id, "quality", Len(plan.steps) + 1),
                                 Get(data, "check_type", "quality_validation"),
                                 <<target_step_id>>, 10, 9)
    IN  IF k = 0 THEN Handled(FALSE, plan)
        ELSE Handled(TRUE, [plan EXCEPT
                !.steps = Append(@, quality_step),
                !.estimated_duration = @ + quality_step.estimated_duration])

adaptation_handlers == {"reschedule_step", "add_parallel_step", "modify_dependencies",
                        "adjust_priorities", "extend_duration", "skip_step",
                        "add_quality_check"}

Handle(adaptation_type, plan, data, t) ==
    CASE adaptation_type = "reschedule_step" -> _reschedule_step(plan, data)
      [] adaptation_type = "add_parallel_step" -> _add_parallel_step(plan, data)
      [] adaptation_type = "modify_dependencies" -> _modify_dependencies(plan, data)
      [] adaptation_type = "adjust_priorities" -> _adjust_priorities(plan, data)
      [] adaptation_type = "extend_duration" -> _extend_duration(plan, data)
      [] adaptation_type = "skip_step" -> _skip_step(plan, data, t)
      [] adaptation_type = "add_quality_check" -> _add_quality_check(plan, data)

adapt_plan_execution(plan_id, adaptation_type, adaptation_data) ==
    /\ IF plan_id \notin 1..Len(plans) \/ adaptation_type \notin adaptation_handlers
       THEN /\ planRet' = PlanRet("adapt_plan_execution", FALSE, plan_id, None)
            /\ UNCHANGED <<plans, plans_file>>
       ELSE LET h == Handle(adaptation_type, plans[plan_id], adaptation_data, minute)
                adapted == [h.plan EXCEPT
                    !.updated_at = minute,
                    !.adaptations = Append(@, [type |-> adaptation_type,
                                               data |-> adaptation_data])]
            IN  /\ plans' = [plans EXCEPT ![plan_id] = IF h.ok THEN adapted ELSE h.plan]
                /\ plans_file' = IF h.ok THEN _save_plans(plans') ELSE plans_file
                /\ planRet' = PlanRet("adapt_plan_execution", h.ok, plan_id, None)
    /\ UNCHANGED <<decision_log, decisions_file, content_structure_matrix, minute>>

(***************************************************************************)
(* Plan and step status, and monitoring.  Time is in whole minutes, so the *)
(* int(seconds / 60) of actual_duration is a difference of minutes.        *)
(***************************************************************************)
update_plan_status(plan_id, new_status) ==
    /\ IF plan_id \notin 1..Len(plans)
       THEN /\ planRet' = PlanRet("update_plan_status", FALSE, plan_id, None)
            /\ UNCHANGED <<plans, plans_file>>
       ELSE LET plan == plans[plan_id]
                p1 == [plan EXCEPT !.status = new_status, !.updated_at = minute]
                p2 == IF new_status = "ACTIVE"
                      THEN [p1 EXCEPT !.started_at = minute]
                      ELSE IF new_status = "COMPLETED"
                      THEN [p1 EXCEPT
                              !.completed_at = minute,
                              !.actual_duration = IF plan.started_at # None
                                                  THEN minute - plan.started_at
                                                  ELSE @]
                      ELSE p1
            IN  /\ plans' = [plans EXCEPT ![plan_id] = p2]
                /\ plans_file' = _save_plans(plans')
                /\ planRet' = PlanRet("update_plan_status", TRUE, plan_id, None)
    /\ UNCHANGED <<decision_log, decisions_file, content_structure_matrix, minute>>

update_step_status(plan_id, step_id, new_status) ==
    /\ IF plan_id \notin 1..Len(plans)
       THEN /\ planRet' = PlanRet("update_step_status", FALSE, plan_id, None)
            /\ UNCHANGED <<plans, plans_file>>
       ELSE LET plan == plans[plan_id]
                k == FirstStep(plan.steps, step_id)
            IN  IF k = 0
                THEN /\ planRet' = PlanRet("update_step_status", FALSE, plan_id, None)
                     /\ UNCHANGED <<plans, plans_file>>
                ELSE LET st == [plan.steps[k] EXCEPT !.status = new_status]
                         st1 == IF new_status = "IN_PROGRESS"
                                THEN [st EXCEPT !.started_at = minute]
                                ELSE IF new_status = "COMPLETED"
                                THEN [st EXCEPT !.completed_at = minute]
                                ELSE st
                     IN  /\ plans' = [plans EXCEPT ![plan_id] =
                                [plan EXCEPT !.steps[k] = st1, !.updated_at = minute]]
                         /\ plans_file' = _save_plans(plans')
                         /\ planRet' = PlanRet("update_step_status", TRUE, plan_id, None)
    /\ UNCHANGED <<decision_log, decisions_file, content_structure_matrix, minute>>

CountStatus(plan, status) ==
    Cardinality({k \in 1..Len(plan.steps) : plan.steps[k].status = status})

_calculate_progress(plan) ==
    [total_steps |-> Len(plan.steps),
     completed_steps |-> CountStatus(plan, "COMPLETED"),
     in_progress_steps |-> CountStatus(plan, "IN_PROGRESS"),
     failed_steps |-> CountStatus(plan, "FAILED"),
     steps_remaining |-> Len(plan.steps) - CountStatus(plan, "COMPLETED")]

\* runtime > estimated_duration * 1.2, in fifths of a minute; the positions
\* of the overdue steps
_identify_overdue_steps(plan, t) ==
    {k \in 1..Len(plan.steps) :
        /\ plan.steps[k].status = "IN_PROGRESS"
        /\ plan.steps[k].started_at # None
        /\ (t - plan.steps[k].started_at) * 5 > plan.steps[k].estimated_duration * 6}

\* one violation for every dependency entry of a step in progress that names
\* a step of the plan which is not completed: pairs of step and entry
_check_dependency_violations(plan) ==
    {<<k, j>> \in (1..Len(plan.steps)) \X (1..Len(plan.steps) + 2) :
        /\ plan.steps[k].status = "IN_PROGRESS"
        /\ j <= Len(plan.steps[k].dependencies)
        /\ LET d == FirstStep(plan.steps, plan.steps[k].dependencies[j])
           IN  d # 0 /\ plan.steps[d].status # "COMPLETED"}

HealthStatus(health_score) ==
    IF health_score >= 80 THEN "healthy"
    ELSE IF health_score >= 60 THEN "warning"
    ELSE "critical"

\* Mutant of _assess_execution_health: the score is not held at 0.
_assess_execution_health_unclamped(plan, t) ==
    LET health_score ==
            100 - CountStatus(plan, "FAILED") * 20
                - CountStatus(plan, "BLOCKED") * 15
                - Cardinality(_identify_overdue_steps(plan, t)) * 10
                - Cardinality(_check_dependency_violations(plan)) * 10
    IN  [health_score |-> health_score, status |-> HealthStatus(health_score)]

_assess_execution_health(plan, t) ==
    LET health_score ==
            Max(0, 100 - CountStatus(plan, "FAILED") * 20
                       - CountStatus(plan, "BLOCKED") * 15
                       - Cardinality(_identify_overdue_steps(plan, t)) * 10
                       - Cardinality(_check_dependency_violations(plan)) * 10)
    IN  [health_score |-> health_score, status |-> HealthStatus(health_score)]

MaxDuration(steps) ==
    CHOOSE d \in {steps[k].estimated_duration : k \in 1..Len(steps)} :
        \A k \in 1..Len(steps) : steps[k].estimated_duration <= d

\* the while loop of _estimate_completion
RECURSIVE EstimateFrom(_, _, _)
EstimateFrom(remaining_steps, processed_steps, remaining_time) ==
    IF remaining_steps = <<>>
    THEN remaining_time
    ELSE LET ready == SelectSeq(remaining_steps,
                         LAMBDA st : \A j \in 1..Len(st.dependencies) :
                                        st.dependencies[j] \in processed_steps)
             ready_steps == IF ready = <<>> THEN <<remaining_steps[1]>> ELSE ready
         IN  EstimateFrom(
                SelectSeq(remaining_steps,
                          LAMBDA st : \A k \in 1..Len(ready_steps) : ready_steps[k] # st),
                processed_steps \cup {ready_steps[k].id : k \in 1..Len(ready_steps)},
                remaining_time + MaxDuration(ready_steps))

_estimate_completion(plan) ==
    LET remaining_steps ==
            SelectSeq(plan.steps, LAMBDA st : st.status \in {"PENDING", "IN_PROGRESS"})
    IN  [estimated_minutes |-> EstimateFrom(remaining_steps, {}, 0)]

\* monitor_plan_execution returns the error record for an unknown plan;
\* _generate_recommendations compares every priority with 8, which raises
\* TypeError on a priority of None.  Of the monitoring data the progress,
\* the health and the completion estimate are kept.
monitor_plan_execution(plan_id) ==
    /\ IF plan_id \notin 1..Len(plans)
       THEN planRet' = PlanRet("monitor_plan_execution", "error", plan_id, None)
       ELSE LET plan == plans[plan_id]
            IN  IF \E k \in 1..Len(plan.steps) : plan.steps[k].priority = None
                THEN planRet' = PlanRet("monitor_plan_execution", "TypeError", plan_id, None)
                ELSE planRet' = PlanRet("monitor_plan_execution", "ok", plan_id,
                        [status |-> PlanStatusValue(plan.status),
                         progress |-> _calculate_progress(plan),
                         execution_health |-> _assess_execution_health(plan, minute),
                         estimated_completion |-> _estimate_completion(plan)])
    /\ UNCHANGED <<plans, plans_file, decision_log, decisions_file,
                   content_structure_matrix, minute>>

\* Largest value of the clock of the ReasoningEngine.
MaxMinute == 7

\* Time passes.
TickMinute(d) ==
    /\ minute + d <= MaxMinute
    /\ minute' = minute + d
    /\ UNCHANGED <<plans, plans_file, decision_log, decisions_file,
                   content_structure_matrix, planRet>>

(***************************************************************************)
(* DecisionFramework and ReasoningEngine.make_decision.  A ReasoningContext*)
(* is [content_requirements, target_personas]; the deciders read nothing   *)
(* else of it.  Confidence is in hundredths.                               *)
(***************************************************************************)
InitialMatrix ==
    [ guide |-> [reasoning_type |-> "SEQUENTIAL", template |-> "step_by_step"],
      analysis |-> [reasoning_type |-> "PARALLEL", template |-> "comparative"],
      narrative |-> [reasoning_type |-> "ITERATIVE", template |-> "storytelling"],
      reference |-> [reasoning_type |-> "CONDITIONAL", template |-> "reference"],
      tutorial |-> [reasoning_type |-> "SEQUENTIAL", template |-> "instructional"] ]

Contains(s, x) == \E k \in 1..Len(s) : s[k] = x

Decided(decision, matrix) == [decision |-> decision, matrix |-> matrix]

\* structure_info is the matrix's own entry, so the depth it is given stays
\* in the matrix
_decide_content_structure(context, matrix) ==
    LET content_type == Get(context.content_requirements, "type", "guide")
        key == IF content_type \in DOMAIN matrix THEN content_type ELSE "guide"
        personas == context.target_personas
        structure_info ==
            IF Contains(personas, "Strategic Sofia")
            THEN Put(matrix[key], "depth", "strategic")
            ELSE IF Contains(personas, "Adaptive Alex")
            THEN Put(matrix[key], "depth", "practical")
            ELSE IF Contains(personas, "Curious Casey")
            THEN Put(matrix[key], "depth", "foundational")
            ELSE matrix[key]
    IN  Decided([decision |-> "content_structure",
                 structure_type |-> content_type,
                 reasoning_type |-> structure_info["reasoning_type"],
                 template |-> structure_info["template"],
                 depth |-> Get(structure_info, "depth", "balanced"),
                 confidence |-> 85],
                [matrix EXCEPT ![key] = structure_info])

_decide_persona_targeting(context) ==
    LET personas == context.target_personas
        content_complexity == Get(context.content_requirements, "complexity", "medium")
        primary_persona ==
            IF content_complexity = "high" /\ Contains(personas, "Strategic Sofia")
            THEN "Strategic Sofia"
            ELSE IF content_complexity = "medium" /\ Contains(personas, "Adaptive Alex")
            THEN "Adaptive Alex"
            ELSE IF content_complexity = "low" /\ Contains(personas, "Curious Casey")
            THEN "Curious Casey"
            ELSE IF Len(personas) > 0 THEN personas[1] ELSE "Adaptive Alex"
    IN  [decision |-> "persona_targeting",
         primary_persona |-> primary_persona,
         secondary_personas |-> SelectSeq(personas, LAMBDA p : p # primary_persona),
         approach |-> "layered_complexity",
         confidence |-> 90]

template_mapping ==
    [ guide |-> "core_body_guide",
      analysis |-> "core_body_comparison",
      narrative |-> "core_body_narrative",
      tutorial |-> "core_body_guide",
      reference |-> "core_body_comparison" ]

_decide_template_selection(context) ==
    LET content_type == Get(context.content_requirements, "type", "guide")
    IN  [decision |-> "template_selection",
         template |-> Get(template_mapping, content_type, "core_body_guide"),
         format |-> Get(context.content_requirements, "format", "markdown"),
         customizations |-> <<>>,
         confidence |-> 80]

focus_mapping ==
    [ general |-> <<"content_quality", "brand_alignment">>,
      structural |-> <<"content_structure", "template_adherence">>,
      voice |-> <<"brand_voice", "persona_targeting">>,
      technical |-> <<"accuracy", "detail_level">>,
      creative |-> <<"engagement", "creativity">> ]

_identify_focus_areas(feedback_type) ==
    Get(focus_mapping, feedback_type, focus_mapping["general"])

_decide_revision_approach(context) ==
    LET feedback_type == Get(context.content_requirements, "feedback_type", "general")
        revision_count == Get(context.content_requirements, "revision_count", 0)
        approach == IF revision_count = 0 THEN "comprehensive"
                    ELSE IF revision_count < 3 THEN "targeted"
                    ELSE "minimal"
    IN  [decision |-> "revision_approach",
         approach |-> approach,
         focus_areas |-> _identify_focus_areas(feedback_type),
         iteration_strategy |-> "incremental",
         confidence |-> 75]

_decide_brand_compliance(context) ==
    [decision |-> "brand_compliance",
     compliance_level |-> "strict",
     validation_points |-> <<"voice_characteristics", "persona_alignment",
                             "value_integration", "authenticity_protection",
                             "ethical_considerations">>,
     enforcement_strategy |-> "mandatory",
     confidence |-> 100]

_decide_task_prioritization(context) ==
    [decision |-> "task_prioritization",
     priority_factors |-> [brand_compliance |-> 10, content_quality |-> 8,
                           persona_targeting |-> 7, template_adherence |-> 6,
                           time_efficiency |-> 5],
     optimization_strategy |-> "quality_first",
     trade_offs |-> <<>>,
     confidence |-> 85]

DecisionType == {"content_structure", "persona_targeting", "template_selection",
                 "revision_approach", "brand_compliance", "task_prioritization"}

\* DecisionFramework.make_decision: the decision and the matrix it leaves
decide(decision_type, context, matrix) ==
    CASE decision_type = "content_structure" -> _decide_content_structure(context, matrix)
      [] decision_type = "persona_targeting" ->
            Decided(_decide_persona_targeting(context), matrix)
      [] decision_type = "template_selection" ->
            Decided(_decide_template_selection(context), matrix)
      [] decision_type = "revision_approach" ->
            Decided(_decide_revision_approach(context), matrix)
      [] decision_type = "brand_compliance" ->
            Decided(_decide_brand_compliance(context), matrix)
      [] decision_type = "task_prioritization" ->
            Decided(_decide_task_prioritization(context), matrix)

\* json.dump raises TypeError on the ReasoningType member a content_structure
\* decision holds
LogEntrySerialisable(e) == e.decision_type # "content_structure"

RECURSIVE SerialisablePrefix(_)
SerialisablePrefix(log) ==
    IF log = <<>> \/ ~LogEntrySerialisable(Head(log)) THEN <<>>
    ELSE <<Head(log)>> \o SerialisablePrefix(Tail(log))

\* _save_decision_log: the file is opened for writing, the entries are
\* written one after the other, and the error is logged and swallowed
_save_decision_log(log) ==
    LET written == SerialisablePrefix(log)
    IN  [ok |-> Len(written) = Len(log), data |-> written]

\* Mutant of make_decision: the entry is put in front of the log.
make_decision_prepend(decision_type, context) ==
    LET d == decide(decision_type, context, content_structure_matrix)
        log_entry == [decision_type |-> decision_type,
                      context |-> context,
                      decision |-> d.decision]
    IN  /\ content_structure_matrix' = d.matrix
        /\ decision_log' = <<log_entry>> \o decision_log
        /\ decisions_file' = _save_decision_log(decision_log')
        /\ planRet' = PlanRet("make_decision", "ok", None, d.decision)
        /\ UNCHANGED <<plans, plans_file, minute>>

\* the log entry's timestamp and engine version are left out
make_decision(decision_type, context) ==
    LET d == decide(decision_type, context, content_structure_matrix)
        log_entry == [decision_type |-> decision_type,
                      context |-> context,
                      decision |-> d.decision]
    IN  /\ content_structure_matrix' = d.matrix
        /\ decision_log' = Append(decision_log, log_entry)
        /\ decisions_file' = _save_decision_log(decision_log')
        /\ planRet' = PlanRet("make_decision", "ok", None, d.decision)
        /\ UNCHANGED <<plans, plans_file, minute>>

NoPlanRet == PlanRet("none", "none", None, None)

StepStatusOf(value) ==
    CHOOSE st \in {"PENDING", "IN_PROGRESS", "COMPLETED", "FAILED", "SKIPPED", "BLOCKED"} :
        StepStatusValue(st) = value

PlanStatusOf(value) ==
    CHOOSE st \in {"DRAFT", "ACTIVE", "PAUSED", "COMPLETED", "FAILED", "CANCELLED"} :
        PlanStatusValue(st) = value

step_from_dict(data) == [data EXCEPT !.status = StepStatusOf(data.status)]

plan_from_dict(data) ==
    [data EXCEPT !.status = PlanStatusOf(data.status),
                 !.steps = [k \in 1..Len(data.steps) |-> step_from_dict(data.steps[k])]]

\* _load_plans: a file json cannot parse is logged and leaves no plan
_load_plans(f) ==
    IF f.ok THEN [k \in 1..Len(f.data) |-> plan_from_dict(f.data[k])] ELSE <<>>

\* _load_decision_log: a file json cannot parse is logged and leaves the
\* log empty
_load_decision_log(f) == IF f.ok THEN f.data ELSE <<>>

\* ReasoningEngine(project_root) on the project root in use: a new decision
\* framework, plans and decision log as the files give them.
ReasoningEngine_init ==
    /\ content_structure_matrix' = InitialMatrix
    /\ plans' = _load_plans(plans_file)
    /\ decision_log' = _load_decision_log(decisions_file)
    /\ planRet' = PlanRet("ReasoningEngine", "ok", None, None)
    /\ UNCHANGED <<plans_file, decisions_file, minute>>

PlanInit ==
    /\ plans = <<>>
    /\ plans_file = [ok |-> TRUE, data |-> <<>>]
    /\ decision_log = <<>>
    /\ decisions_file = [ok |-> TRUE, data |-> <<>>]
    /\ content_structure_matrix = InitialMatrix
    /\ minute = 0
    /\ planRet = NoPlanRet

(***************************************************************************)
(* validation_engine.py.  A content string is what the validators'         *)
(* patterns find in it: the model's content is the record of those finds.  *)
(* validate_content runs on the calling thread; its steps are the points   *)
(* where another thread can run.                                           *)
(***************************************************************************)
VARIABLES
    validation_results,     \* self.validation_results, in insertion order
    results_file,           \* validation_cache/validation_results.json
    nextUuid,               \* the next uuid.uuid4()
    pc,                     \* where each thread is in validate_content
    local,                  \* each thread's result
    seen,                   \* the dict's size when a thread began iterating it
    returned,               \* what validate_content returned to each thread
    valNow,                 \* datetime.now() as the ValidationEngine reads it
    history                 \* what get_content_validation_history returned last

valVars == <<validation_results, results_file, nextUuid, pc, local, seen, returned,
             valNow, history>>

MaxThreads == 2

\* validate_content calls in all
MaxCalls == 2

Threads == 1..MaxThreads

ValidationType == {"BRAND_VOICE", "AUTHENTICITY", "PERSONA_ALIGNMENT",
                   "ETHICAL_INTEGRATION", "TRANSPARENCY", "QUALITY_STANDARDS",
                   "TEMPLATE_COMPLIANCE", "PROHIBITED_LANGUAGE"}

ValidationIssue(validation_type, severity) ==
    [validation_type |-> validation_type, severity |-> severity]

Repeat(n, x) == [k \in 1..n |-> x]

\* one HIGH issue per voice type without a required pattern, one MEDIUM
\* issue per negative pattern found
validate_voice_characteristics(content) ==
    Repeat(content.voice_missing, ValidationIssue("BRAND_VOICE", "HIGH"))
    \o Repeat(content.voice_negative, ValidationIssue("BRAND_VOICE", "MEDIUM"))

\* one HIGH issue per match of a prohibited pattern
validate_prohibited_language(content) ==
    Repeat(content.prohibited, ValidationIssue("PROHIBITED_LANGUAGE", "HIGH"))

\* one CRITICAL issue per experience claim that the source materials do not
\* support or that has no annotation nearby
validate_experience_claims(content) ==
    Repeat(content.claims, ValidationIssue("AUTHENTICITY", "CRITICAL"))

persona_requirements ==
    [x \in {"Strategic Sofia", "Adaptive Alex", "Curious Casey"} |->
        CASE x = "Strategic Sofia" -> "high"
          [] x = "Adaptive Alex" -> "medium"
          [] x = "Curious Casey" -> "low"]

_complexity_matches(actual, expected) ==
    CASE expected = "high" -> actual \in {"high", "medium"}
      [] expected = "medium" -> actual \in {"medium", "low", "high"}
      [] expected = "low" -> actual \in {"low", "medium"}
      [] OTHER -> FALSE

RECURSIVE PersonaIssues(_, _)
PersonaIssues(content, personas) ==
    IF personas = <<>> THEN <<>>
    ELSE LET persona == Head(personas)
             mismatch ==
                IF persona \in DOMAIN persona_requirements
                   /\ ~_complexity_matches(content.complexity, persona_requirements[persona])
                THEN <<ValidationIssue("PERSONA_ALIGNMENT", "MEDIUM")>> ELSE <<>>
             focus ==
                IF persona \in DOMAIN persona_requirements /\ persona \notin content.focus
                THEN <<ValidationIssue("PERSONA_ALIGNMENT", "MEDIUM")>> ELSE <<>>
         IN  mismatch \o focus \o PersonaIssues(content, Tail(personas))

validate_persona_alignment(content, target_personas) ==
    IF target_personas = <<>>
    THEN <<ValidationIssue("PERSONA_ALIGNMENT", "HIGH")>>
    ELSE PersonaIssues(content, target_personas)

\* content.ethical: "none" when no ethical pattern matches, "clustered" when
\* all matches lie in one third of the text, "spread" otherwise
validate_ethical_integration(content) ==
    (IF content.ethical = "none"
     THEN <<ValidationIssue("ETHICAL_INTEGRATION", "HIGH")>> ELSE <<>>)
    \o Repeat(content.afterthought, ValidationIssue("ETHICAL_INTEGRATION", "MEDIUM"))
    \o (IF content.ethical = "clustered"
        THEN <<ValidationIssue("ETHICAL_INTEGRATION", "MEDIUM")>> ELSE <<>>)

CountSeverity(issues, severity) ==
    Cardinality({k \in 1..Len(issues) : issues[k].severity = severity})

\* a mutant of _calculate_overall_assessment: the score is not clamped at 0
_calculate_overall_assessment_unclamped(issues) ==
    IF issues = <<>> THEN [status |-> "PASSED", score |-> 100]
    ELSE LET critical_count == CountSeverity(issues, "CRITICAL")
             high_count == CountSeverity(issues, "HIGH")
             medium_count == CountSeverity(issues, "MEDIUM")
             low_count == CountSeverity(issues, "LOW")
             score == 100 - critical_count * 25 - high_count * 15
                          - medium_count * 8 - low_count * 3
             status == IF critical_count > 0 THEN "FAILED"
                       ELSE IF high_count > 2 THEN "FAILED"
                       ELSE IF high_count > 0 \/ medium_count > 3 THEN "WARNING"
                       ELSE IF medium_count > 0 \/ low_count > 0 THEN "REQUIRES_REVIEW"
                       ELSE "PASSED"
         IN  [status |-> status, score |-> score]

_calculate_overall_assessment(issues) ==
    IF issues = <<>> THEN [status |-> "PASSED", score |-> 100]
    ELSE LET critical_count == CountSeverity(issues, "CRITICAL")
             high_count == CountSeverity(issues, "HIGH")
             medium_count == CountSeverity(issues, "MEDIUM")
             low_count == CountSeverity(issues, "LOW")
             score == 100 - critical_count * 25 - high_count * 15
                          - medium_count * 8 - low_count * 3
             status == IF critical_count > 0 THEN "FAILED"
                       ELSE IF high_count > 2 THEN "FAILED"
                       ELSE IF high_count > 0 \/ medium_count > 3 THEN "WARNING"
                       ELSE IF medium_count > 0 \/ low_count > 0 THEN "REQUIRES_REVIEW"
                       ELSE "PASSED"
         IN  [status |-> status, score |-> Max(0, score)]

\* the issues validate_content collects, in the order of its five checks
AllIssues(content, target_personas, validation_types) ==
    (IF "BRAND_VOICE" \in validation_types
     THEN validate_voice_characteristics(content) ELSE <<>>)
    \o (IF "PROHIBITED_LANGUAGE" \in validation_types
        THEN validate_prohibited_language(content) ELSE <<>>)
    \o (IF "AUTHENTICITY" \in validation_types
        THEN validate_experience_claims(content) ELSE <<>>)
    \o (IF "PERSONA_ALIGNMENT" \in validation_types
        THEN validate_persona_alignment(content, target_personas) ELSE <<>>)
    \o (IF "ETHICAL_INTEGRATION" \in validation_types
        THEN validate_ethical_integration(content) ELSE <<>>)

\* ValidationResult; suggestions, validator_version and metadata are left out
ValidationResult(id, content_id, validation_types, assessment, issues, validated_at) ==
    [id |-> id,
     content_id |-> content_id,
     validation_types |-> validation_types,
     overall_status |-> assessment.status,
     overall_score |-> assessment.score,
     issues |-> issues,
     validated_at |-> validated_at]

\* a uuid4 string, None where one is expected, and an id the caller chose
Uuid(n) == [uuid |-> n]

NoUuid == Uuid(None)

DocId == Uuid(0)

NoResult == [id |-> NoUuid]

ValidationStatusValue(st) ==
    CASE st = "PASSED" -> "passed"
      [] st = "FAILED" -> "failed"
      [] st = "WARNING" -> "warning"
      [] st = "REQUIRES_REVIEW" -> "requires_review"

\* ValidationResult.to_dict
result_to_dict(r) == [r EXCEPT !.overall_status = ValidationStatusValue(r.overall_status)]

\* validate_content up to the construction of the result: lines 672-722.
\* content_id None draws a uuid of its own.
Validate(t, content, content_id, target_personas, validation_types) ==
    /\ pc[t] \in {"idle", "done"}
    /\ LET cid == IF content_id = NoUuid THEN Uuid(nextUuid) ELSE content_id
           rid == IF content_id = NoUuid THEN nextUuid + 1 ELSE nextUuid
           all_issues == AllIssues(content, target_personas, validation_types)
       IN  /\ local' = [local EXCEPT ![t] =
                ValidationResult(Uuid(rid), cid, validation_types,
                                 _calculate_overall_assessment(all_issues), all_issues,
                                 valNow)]
           /\ nextUuid' = rid + 1
    /\ pc' = [pc EXCEPT ![t] = "store"]
    /\ UNCHANGED <<validation_results, results_file, seen, returned, valNow, history>>

\* a mutant of the store: the dict is rebuilt around the new result
StoreResult_rebuild(t) ==
    /\ pc[t] = "store"
    /\ validation_results' = <<local[t]>>
    /\ pc' = [pc EXCEPT ![t] = "open"]
    /\ UNCHANGED <<results_file, nextUuid, local, seen, returned, valNow, history>>

\* self.validation_results[result.id] = result
StoreResult(t) ==
    /\ pc[t] = "store"
    /\ validation_results' = Append(validation_results, local[t])
    /\ pc' = [pc EXCEPT ![t] = "open"]
    /\ UNCHANGED <<results_file, nextUuid, local, seen, returned, valNow, history>>

\* _save_validation_results: open(..., 'w') empties the file
OpenResultsFile(t) ==
    /\ pc[t] = "open"
    /\ results_file' = [ok |-> FALSE, data |-> <<>>]
    /\ pc' = [pc EXCEPT ![t] = "iterate"]
    /\ UNCHANGED <<validation_results, nextUuid, local, seen, returned, valNow, history>>

\* the list comprehension starts to iterate self.validation_results.values()
BeginIterate(t) ==
    /\ pc[t] = "iterate"
    /\ seen' = [seen EXCEPT ![t] = Len(validation_results)]
    /\ pc' = [pc EXCEPT ![t] = "dump"]
    /\ UNCHANGED <<validation_results, results_file, nextUuid, local, returned, valNow, history>>

\* the iteration ends: a dict that grew meanwhile raises RuntimeError, which
\* the except clause logs, and nothing is written
EndIterate(t) ==
    /\ pc[t] = "dump"
    /\ pc' = [pc EXCEPT ![t] =
            IF Len(validation_results) # seen[t] THEN "return" ELSE "write"]
    /\ UNCHANGED <<validation_results, results_file, nextUuid, local, seen, returned, valNow, history>>

\* json.dump writes the list that was built and the file is closed.  A list
\* shorter than what another thread wrote since the open overwrites only the
\* head of it.
WriteResults(t) ==
    /\ pc[t] = "write"
    /\ results_file' =
            IF Len(results_file.data) > seen[t]
            THEN [ok |-> FALSE, data |-> results_file.data]
            ELSE [ok |-> TRUE,
                  data |-> [k \in 1..seen[t] |-> result_to_dict(validation_results[k])]]
    /\ pc' = [pc EXCEPT ![t] = "return"]
    /\ UNCHANGED <<validation_results, nextUuid, local, seen, returned, valNow, history>>

\* return result
ReturnResult(t) ==
    /\ pc[t] = "return"
    /\ returned' = [returned EXCEPT ![t] = local[t]]
    /\ pc' = [pc EXCEPT ![t] = "done"]
    /\ UNCHANGED <<validation_results, results_file, nextUuid, local, seen, valNow, history>>

\* bound on the validation clock
MaxValNow == 2

\* time passes between two readings of datetime.now()
TickValidation ==
    /\ valNow < MaxValNow
    /\ valNow' = valNow + 1
    /\ UNCHANGED <<validation_results, results_file, nextUuid, pc, local, seen, returned,
                   history>>

NoHistory == [content_id |-> NoUuid, results |-> <<>>]

\* [result for result in self.validation_results.values()
\*  if result.content_id == content_id]
HistoryOf(results, content_id) ==
    LET OfContent(result) == result.content_id = content_id
    IN  SelectSeq(results, OfContent)

get_content_validation_history(content_id) ==
    /\ history' = [content_id |-> content_id,
                   results |-> HistoryOf(validation_results, content_id)]
    /\ UNCHANGED <<validation_results, results_file, nextUuid, pc, local, seen, returned,
                   valNow>>

ValInit ==
    /\ validation_results = <<>>
    /\ results_file = [ok |-> TRUE, data |-> <<>>]
    /\ nextUuid = 1
    /\ pc = [t \in Threads |-> "idle"]
    /\ local = [t \in Threads |-> NoResult]
    /\ seen = [t \in Threads |-> 0]
    /\ returned = [t \in Threads |-> NoResult]
    /\ valNow = 0
    /\ history = NoHistory

(***************************************************************************)
(* KnowledgeManager (knowledge_manager.py).  Text (titles, contents,       *)
(* queries, tags) is a sequence of characters, so that lower-casing and    *)
(* substring search are computed and not assumed.  A knowledge file is its *)
(* frontmatter metadata and its body; its path is the directory that       *)
(* decides the knowledge type and the file name's stem.  Fields that no    *)
(* modelled operation reads (version, last_modified, dependencies) are     *)
(* left out of KnowledgeItem.  The scan visits the files in the order of   *)
(* KnowledgePaths.                                                         *)
(***************************************************************************)
VARIABLES knowledge_files, knowledge_items, knowledge_index, knowRet,
    written_outside         \* history: the files written from outside since the
                            \* manager last scanned or wrote them

knowVars == <<knowledge_files, knowledge_items, knowledge_index, knowRet,
             written_outside>>

\* Largest number of files in the knowledge directory.
MaxKnowledgeFiles == 2

KnowledgeType ==
    {"BRAND_FOUNDATION", "PERSONAS", "WRITING_EXAMPLES", "TEMPLATES",
     "USER_PREFERENCES", "CONTEXTUAL"}

KnowledgeTypeList ==
    <<"BRAND_FOUNDATION", "PERSONAS", "WRITING_EXAMPLES", "TEMPLATES",
      "USER_PREFERENCES", "CONTEXTUAL">>

KnowledgeStatusValue ==
    [ACTIVE |-> "active", DEPRECATED |-> "deprecated", DRAFT |-> "draft",
     ARCHIVED |-> "archived"]

\* KnowledgeStatus(value): the member with that value; ValueError when there
\* is none.
IsKnowledgeStatus(value) ==
    \E s \in DOMAIN KnowledgeStatusValue : KnowledgeStatusValue[s] = value

KnowledgeStatusOf(value) ==
    CHOOSE s \in DOMAIN KnowledgeStatusValue : KnowledgeStatusValue[s] = value

knowledge_access_matrix ==
    [brand_author |->
        [BRAND_FOUNDATION |-> {"read", "write", "version"},
         PERSONAS |-> {"read", "write", "version"},
         WRITING_EXAMPLES |-> {"read", "write", "version"},
         TEMPLATES |-> {"read", "write", "version"},
         USER_PREFERENCES |-> {"read", "write"},
         CONTEXTUAL |-> {"read", "write"}],
     writer |->
        [BRAND_FOUNDATION |-> {"read"},
         PERSONAS |-> {"read"},
         WRITING_EXAMPLES |-> {"read"},
         TEMPLATES |-> {"read"},
         USER_PREFERENCES |-> {"read"},
         CONTEXTUAL |-> {"read", "write"}],
     editor |->
        [BRAND_FOUNDATION |-> {"read"},
         PERSONAS |-> {"read"},
         WRITING_EXAMPLES |-> {"read"},
         TEMPLATES |-> {"read"},
         USER_PREFERENCES |-> {"read"},
         CONTEXTUAL |-> {"read"}],
     researcher |->
        [BRAND_FOUNDATION |-> {"read"},
         PERSONAS |-> {"read"},
         WRITING_EXAMPLES |-> {"read"},
         TEMPLATES |-> {"read"},
         USER_PREFERENCES |-> {},
         CONTEXTUAL |-> {"read"}]]

knowledge_can_access(agent_role, knowledge_type, operation) ==
    IF agent_role \notin DOMAIN knowledge_access_matrix
    THEN FALSE
    ELSE operation \in Get(knowledge_access_matrix[agent_role], knowledge_type, {})

\* Mutant of get_accessible_types: every type of a known role, whatever its
\* permission list.
get_accessible_types_all(agent_role) ==
    IF agent_role \notin DOMAIN knowledge_access_matrix
    THEN {}
    ELSE DOMAIN knowledge_access_matrix[agent_role]

get_accessible_types(agent_role) ==
    IF agent_role \notin DOMAIN knowledge_access_matrix
    THEN {}
    ELSE {kt \in DOMAIN knowledge_access_matrix[agent_role] :
            knowledge_access_matrix[agent_role][kt] # {}}

\* str.lower() over the alphabet of the model.
LowerChar(c) == CASE c = "A" -> "a" [] c = "B" -> "b" [] OTHER -> c

UpperChar(c) == CASE c = "a" -> "A" [] c = "b" -> "B" [] OTHER -> c

lower(s) == [k \in 1..Len(s) |-> LowerChar(s[k])]

\* str.title() of a one-word stem.
str_title(s) == [k \in 1..Len(s) |-> IF k = 1 THEN UpperChar(s[k]) ELSE LowerChar(s[k])]

\* q in s, for strings.
IsSubstring(q, s) ==
    \E i \in 0..(Len(s) - Len(q)) : SubSeq(s, i + 1, i + Len(q)) = q

KnowledgePath(dir, stem) == [dir |-> dir, stem |-> stem]

_determine_knowledge_type(file_path) ==
    IF file_path.dir \in {"brand/brand-foundation", "brand"}
    THEN IF file_path.dir = "brand/brand-foundation"
         THEN "BRAND_FOUNDATION"
         ELSE "PERSONAS"
    ELSE IF file_path.dir = "examples" THEN "WRITING_EXAMPLES"
    ELSE IF file_path.dir = "templates" THEN "TEMPLATES"
    ELSE IF file_path.dir = "user_preference" THEN "USER_PREFERENCES"
    ELSE "CONTEXTUAL"

KnowledgeFile(metadata, content) == [metadata |-> metadata, content |-> content]

\* sha256 of the text, taken to be free of collisions: the text itself.
_compute_content_hash(metadata, content) == KnowledgeFile(metadata, content)

KnowledgeItem(id, knowledge_type, title_, content, version, tags, status, metadata, content_hash) ==
    [id |-> id, knowledge_type |-> knowledge_type, title |-> title_,
     content |-> content, version |-> version, tags |-> tags, status |-> status,
     metadata |-> metadata, content_hash |-> content_hash]

\* _generate_version(existing_item): a version "major.minor.patch" is the
\* tuple of its numbers; `at` is the item's position, 0 for None
_generate_version(items, at) ==
    IF at = 0
    THEN <<1, 0, 0>>
    ELSE IF Len(items[at].version) = 3
    THEN <<items[at].version[1], items[at].version[2], items[at].version[3] + 1>>
    ELSE <<1, 0, 0>>

knowledge_to_dict(item) ==
    [item EXCEPT !.status = KnowledgeStatusValue[item.status]]

knowledge_from_dict(data) ==
    [data EXCEPT !.status = KnowledgeStatusOf(data.status)]

_save_knowledge_index(items) ==
    [k \in 1..Len(items) |-> knowledge_to_dict(items[k])]

_load_knowledge_index(index) ==
    [k \in 1..Len(index) |-> knowledge_from_dict(index[k])]

\* Position of the item with this id in the dict, 0 when there is none.
ItemAt(items, item_id) ==
    IF \E k \in 1..Len(items) : items[k].id = item_id
    THEN CHOOSE k \in 1..Len(items) : items[k].id = item_id
    ELSE 0

\* self.knowledge_items[item_id] = item: in place for a known key, at the
\* end for a new one.
SetItem(items, item) ==
    LET at == ItemAt(items, item.id)
    IN IF at = 0 THEN Append(items, item) ELSE [items EXCEPT ![at] = item]

\* The body of the scan's loop for one file.
ScanFile(items, on_disk, file_path) ==
    LET file == on_disk[file_path]
        content_hash == _compute_content_hash(file.metadata, file.content)
        at == ItemAt(items, file_path)
        status == Get(file.metadata, "status", "active")
    IN IF at # 0 /\ items[at].content_hash = content_hash
       THEN items
       ELSE IF ~IsKnowledgeStatus(status)
       THEN items
       ELSE SetItem(items,
                KnowledgeItem(file_path,
                              _determine_knowledge_type(file_path),
                              Get(file.metadata, "title", str_title(file_path.stem)),
                              file.content,
                              Get(file.metadata, "version", _generate_version(items, at)),
                              Get(file.metadata, "tags", <<>>),
                              KnowledgeStatusOf(status),
                              file.metadata,
                              content_hash))

RECURSIVE ScanFrom(_, _, _, _)
ScanFrom(items, on_disk, paths, k) ==
    IF k > Len(paths)
    THEN items
    ELSE ScanFrom(IF paths[k] \in DOMAIN on_disk
                  THEN ScanFile(items, on_disk, paths[k])
                  ELSE items,
                  on_disk, paths, k + 1)

relevance_score(item, query) ==
    (IF IsSubstring(lower(query), lower(item.title)) THEN 3 ELSE 0)
    + (IF IsSubstring(lower(query), lower(item.content)) THEN 1 ELSE 0)
    + (IF \E k \in 1..Len(item.tags) : lower(item.tags[k]) = lower(query)
       THEN 2 ELSE 0)

\* results.sort(key=relevance_score, reverse=True): stable, descending.
RECURSIVE InsertByRelevance(_, _, _)
InsertByRelevance(sorted, item, query) ==
    IF sorted = <<>>
    THEN <<item>>
    ELSE IF relevance_score(item, query) > relevance_score(Head(sorted), query)
    THEN <<item>> \o sorted
    ELSE <<Head(sorted)>> \o InsertByRelevance(Tail(sorted), item, query)

RECURSIVE SortByRelevanceFrom(_, _, _)
SortByRelevanceFrom(items, query, k) ==
    IF k = 0
    THEN <<>>
    ELSE InsertByRelevance(SortByRelevanceFrom(items, query, k - 1), items[k], query)

SearchMatches(item, accessible_types, query, tags) ==
    /\ item.knowledge_type \in accessible_types
    /\ item.status # "ARCHIVED"
    /\ ~(tags # <<>> /\ ~(\E k \in 1..Len(tags) : Contains(item.tags, tags[k])))
    /\ \/ IsSubstring(lower(query), lower(item.title))
       \/ IsSubstring(lower(query), lower(item.content))

KnowRet(op, agent_role, limit, outcome, results) ==
    [op |-> op, agent_role |-> agent_role, limit |-> limit,
     outcome |-> outcome, results |-> results]

NoKnowRet == KnowRet("none", "none", 0, "none", <<>>)

\* The paths of the knowledge directory, in the order the scan visits them.
KnowledgePaths ==
    <<KnowledgePath("brand", <<"a", "b">>),
      KnowledgePath("user_preference", <<"a", "b">>),
      KnowledgePath("notes", <<"a", "b">>)>>

\* versions of an item in all, after the first
MaxPatch == 1

\* the item of this id, if there is one, can still get a new version
VersionsBelow(items, item_id, n) ==
    ItemAt(items, item_id) # 0 => items[ItemAt(items, item_id)].version[3] < n

\* A file of the knowledge directory is written or rewritten from outside.
WriteKnowledgeFile(file_path, file) ==
    /\ \/ file_path \in DOMAIN knowledge_files
       \/ Cardinality(DOMAIN knowledge_files) < MaxKnowledgeFiles
    /\ VersionsBelow(knowledge_items, file_path, MaxPatch)
    /\ knowledge_files' = Put(knowledge_files, file_path, file)
    /\ written_outside' = written_outside \cup {file_path}
    /\ UNCHANGED <<knowledge_items, knowledge_index, knowRet>>

_scan_and_update_knowledge(items, on_disk) ==
    ScanFrom(items, on_disk, KnowledgePaths, 1)

\* KnowledgeManager(project_root): load the index, scan, save the index.
KnowledgeManager_init ==
    LET items == _scan_and_update_knowledge(_load_knowledge_index(knowledge_index),
                                            knowledge_files)
    IN /\ knowledge_items' = items
       /\ knowledge_index' = _save_knowledge_index(items)
       /\ knowRet' = KnowRet("KnowledgeManager", "none", 0, "returned", <<>>)
       /\ written_outside' = {}
       /\ UNCHANGED knowledge_files

refresh_knowledge ==
    LET items == _scan_and_update_knowledge(knowledge_items, knowledge_files)
    IN /\ knowledge_items' = items
       /\ knowledge_index' = _save_knowledge_index(items)
       /\ knowRet' = KnowRet("refresh_knowledge", "none", 0, "returned", <<>>)
       /\ written_outside' = {}
       /\ UNCHANGED knowledge_files

\* dict.update
DictUpdate(d, u) ==
    [k \in (DOMAIN d) \cup (DOMAIN u) |-> IF k \in DOMAIN u THEN u[k] ELSE d[k]]

\* update_knowledge_item(agent_role, item_id, new_content, metadata).  The
\* hash is taken of new_content alone.  The item is changed field by field
\* inside the try block: KnowledgeStatus(...) of a value that is no status
\* and an open() that fails (write_fails) raise after the fields before
\* them were assigned, and the except clause returns False.
update_knowledge_item(agent_role, item_id, new_content, metadata, write_fails) ==
    LET at == ItemAt(knowledge_items, item_id)
        item == knowledge_items[at]
        versioned == [item EXCEPT !.content = new_content,
                                  !.version = _generate_version(knowledge_items, at),
                                  !.content_hash = _compute_content_hash(EmptyDict, new_content)]
        status == Get(metadata, "status", KnowledgeStatusValue[item.status])
        tagged == [versioned EXCEPT !.metadata = DictUpdate(item.metadata, metadata),
                                    !.tags = Get(metadata, "tags", item.tags)]
        updated == IF DOMAIN metadata = {} THEN versioned
                   ELSE IF ~IsKnowledgeStatus(status) THEN tagged
                   ELSE [tagged EXCEPT !.status = KnowledgeStatusOf(status)]
        raised == \/ DOMAIN metadata # {} /\ ~IsKnowledgeStatus(status)
                  \/ write_fails
        items == [knowledge_items EXCEPT ![at] = updated]
    IN  IF at = 0
        THEN /\ knowRet' = KnowRet("update_knowledge_item", agent_role, 0, "ValueError", <<>>)
             /\ UNCHANGED <<knowledge_files, knowledge_items, knowledge_index, written_outside>>
        ELSE IF ~knowledge_can_access(agent_role, item.knowledge_type, "write")
        THEN /\ knowRet' = KnowRet("update_knowledge_item", agent_role, 0,
                                   "PermissionError", <<>>)
             /\ UNCHANGED <<knowledge_files, knowledge_items, knowledge_index, written_outside>>
        ELSE IF raised
        THEN /\ knowledge_items' = items
             /\ knowRet' = KnowRet("update_knowledge_item", agent_role, 0, "False", <<>>)
             /\ UNCHANGED <<knowledge_files, knowledge_index, written_outside>>
        ELSE /\ knowledge_items' = items
             /\ knowledge_files' = Put(knowledge_files, item_id,
                                       KnowledgeFile(updated.metadata, new_content))
             /\ knowledge_index' = _save_knowledge_index(items)
             /\ written_outside' = written_outside \ {item_id}
             /\ knowRet' = KnowRet("update_knowledge_item", agent_role, 0, "True", <<>>)

search_knowledge(agent_role, query, knowledge_types, tags, limit) ==
    LET accessible == get_accessible_types(agent_role)
        accessible_types ==
            IF knowledge_types # <<>>
            THEN {kt \in accessible : Contains(knowledge_types, kt)}
            ELSE accessible
        found == SelectSeq(knowledge_items,
                     LAMBDA item : SearchMatches(item, accessible_types, query, tags))
        results == SortByRelevanceFrom(found, query, Len(found))
    IN /\ knowRet' = KnowRet("search_knowledge", agent_role, limit, "returned",
                             SubSeq(results, 1, Min(limit, Len(results))))
       /\ UNCHANGED <<knowledge_files, knowledge_items, knowledge_index, written_outside>>

KnowInit ==
    /\ knowledge_files = EmptyDict
    /\ knowledge_items = <<>>
    /\ knowledge_index = <<>>
    /\ knowRet = NoKnowRet
    /\ written_outside = {}

(***************************************************************************)
(* LLMManager (llm_manager.py).  A configuration is a dict, an LLM is the  *)
(* parameters LLM(...) was built with and the call that built it.  Whether *)
(* a model answers the health check is the environment's choice at every   *)
(* call.                                                                   *)
(***************************************************************************)
VARIABLES
    llm_config_file,        \* config/llm_config.yaml
    llm_config,             \* self.config
    _llm_cache,             \* self._llm_cache: cache key -> LLM
    nextLlm,                \* the number of the next get_llm_for_role call
    llmRet                  \* what get_llm_for_role did last

llmVars == <<llm_config_file, llm_config, _llm_cache, nextLlm, llmRet>>

\* get_llm_for_role calls in all
MaxLlmCalls == 3

\* _create_single_llm: [ok |-> FALSE] is the exception.  temperature is in
\* tenths; built_by is the call that built the instance.
_create_single_llm(config, built_by) ==
    IF DOMAIN config = {} THEN [ok |-> FALSE]
    ELSE IF Get(config, "model", "") = "" THEN [ok |-> FALSE]
    ELSE [ok |-> TRUE,
          llm |-> [model |-> config.model,
                   temperature |-> Get(config, "temperature", 1),
                   built_by |-> built_by]]

\* _test_llm: llm.call answers or raises
_test_llm(llm, up) == llm.model \in up

\* what _create_llm_with_failover hands back: the outcome, the LLM, the
\* candidate it came from and the cache afterwards
Obtained(outcome, llm, via, cache) ==
    [outcome |-> outcome, llm |-> llm, via |-> via, cache |-> cache]

NoLlm == [model |-> "None", temperature |-> 0, built_by |-> 0]

\* the final fallback: _create_single_llm(self.config.get('default_llm', {}))
DefaultLlm(config, built_by, cache) ==
    LET made == _create_single_llm(Get(config, "default_llm", EmptyDict), built_by)
    IN  IF made.ok THEN Obtained("ok", made.llm, "default", cache)
        ELSE Obtained("Exception", NoLlm, "none", cache)

role_config_of(config, role) ==
    Get(Get(config, "role_llm_mapping", EmptyDict), role, EmptyDict)

_try_backup_llm(config, backup_config, role, built_by, up, cache) ==
    LET backup == _create_single_llm(backup_config, built_by)
        tertiary_config == Get(role_config_of(config, role), "tertiary", EmptyDict)
        tertiary == _create_single_llm(tertiary_config, built_by)
    IN  IF backup.ok /\ _test_llm(backup.llm, up)
        THEN Obtained("ok", backup.llm, "backup", cache)
        ELSE IF DOMAIN tertiary_config # {} /\ tertiary.ok
        THEN Obtained("ok", tertiary.llm, "tertiary", cache)
        ELSE DefaultLlm(config, built_by, cache)

\* f"{role}_{primary_config.get('model', 'unknown')}"
cache_key(role, primary_config) == role \o "_" \o Get(primary_config, "model", "unknown")

_create_llm_with_failover(config, cache, primary_config, role, backup_config, built_by, up) ==
    LET key == cache_key(role, primary_config)
        primary == _create_single_llm(primary_config, built_by)
        role_backup == Get(role_config_of(config, role), "backup", EmptyDict)
    IN  IF key \in DOMAIN cache
        THEN Obtained("ok", cache[key], "cache", cache)
        ELSE IF primary.ok /\ _test_llm(primary.llm, up)
        THEN Obtained("ok", primary.llm, "primary", Put(cache, key, primary.llm))
        ELSE IF DOMAIN backup_config # {}
        THEN _try_backup_llm(config, backup_config, role, built_by, up, cache)
        ELSE IF DOMAIN role_backup # {}
        THEN _try_backup_llm(config, role_backup, role, built_by, up, cache)
        ELSE DefaultLlm(config, built_by, cache)

LlmRet(role, outcome, llm, via) ==
    [op |-> "get_llm_for_role", role |-> role, outcome |-> outcome, llm |-> llm, via |-> via]

\* get_llm_for_role(role, task_llm_config); role_config['primary'] of a role
\* mapped without a primary raises KeyError
get_llm_for_role(role, task_llm_config, up) ==
    LET role_config == role_config_of(llm_config, role)
        got == IF DOMAIN task_llm_config # {}
               THEN _create_llm_with_failover(llm_config, _llm_cache, task_llm_config, role,
                                              EmptyDict, nextLlm, up)
               ELSE IF DOMAIN role_config # {}
               THEN IF "primary" \in DOMAIN role_config
                    THEN _create_llm_with_failover(llm_config, _llm_cache,
                                                   role_config.primary, role,
                                                   Get(role_config, "backup", EmptyDict),
                                                   nextLlm, up)
                    ELSE Obtained("KeyError", NoLlm, "none", _llm_cache)
               ELSE _create_llm_with_failover(llm_config, _llm_cache,
                                              Get(llm_config, "default_llm", EmptyDict),
                                              role, EmptyDict, nextLlm, up)
    IN  /\ _llm_cache' = got.cache
        /\ nextLlm' = nextLlm + 1
        /\ llmRet' = LlmRet(role, got.outcome, got.llm, got.via)
        /\ UNCHANGED <<llm_config_file, llm_config>>

\* reload_config: the file is read again and the cache is cleared
reload_config ==
    /\ llm_config' = llm_config_file
    /\ _llm_cache' = EmptyDict
    /\ llmRet' = [op |-> "reload_config", role |-> "none", outcome |-> "ok",
                  llm |-> NoLlm, via |-> "none"]
    /\ UNCHANGED <<llm_config_file, nextLlm>>

\* somebody edits config/llm_config.yaml
WriteLlmConfig(config) ==
    /\ llm_config_file # config
    /\ llm_config_file' = config
    /\ UNCHANGED <<llm_config, _llm_cache, nextLlm, llmRet>>

\* the shipped shape of the file: every role with primary, backup and
\* tertiary, and a default
FullLlmConfig ==
    [role_llm_mapping |->
        [writer |-> [primary |-> [model |-> "m1", temperature |-> 1],
                     backup |-> [model |-> "m2"],
                     tertiary |-> [model |-> "m3"]]],
     default_llm |-> [model |-> "m0"]]

\* LLMManager.__init__
LlmInit ==
    /\ llm_config_file = FullLlmConfig
    /\ llm_config = llm_config_file
    /\ _llm_cache = EmptyDict
    /\ nextLlm = 1
    /\ llmRet = [op |-> "none", role |-> "none", outcome |-> "none", llm |-> NoLlm,
                 via |-> "none"]

otherThanMem == <<planVars, valVars, knowVars, llmVars>>

otherThanPlan == <<memVars, valVars, knowVars, llmVars>>

otherThanVal == <<memVars, planVars, knowVars, llmVars>>

otherThanKnow == <<memVars, planVars, valVars, llmVars>>

otherThanLlm == <<memVars, planVars, valVars, knowVars>>

vars == <<memVars, otherThanMem>>

Init == MemInit /\ PlanInit /\ ValInit /\ KnowInit /\ LlmInit

(***************************************************************************)
(* SpecAccess: one MemoryManager, every role against every memory type,    *)
(* within one sitting (no time passes, so nothing grows old).              *)
(***************************************************************************)
NextAccess ==
    \/ \E r \in AgentRoles, t \in MemoryType :
          /\ nextId <= MaxAccessIds
          /\ store_memory(1, r, t, Note, <<"a">>, 3)
          /\ UNCHANGED otherThanMem
    \/ \E r \in AgentRoles, t \in MemoryType :
          /\ retrieve_memory(1, r, t, "None", <<>>, 10)
          /\ UNCHANGED otherThanMem
    \/ \E r \in AgentRoles, t \in MemoryType \cup {"None"} :
          /\ manual_consolidation(1, r, t)
          /\ UNCHANGED otherThanMem
    \/ /\ clear_session_memory(1)
       /\ UNCHANGED otherThanMem

SpecAccess == Init /\ [][NextAccess]_vars

(***************************************************************************)
(* SpecConsol: one MemoryManager used by brand_author, who may store into  *)
(* and consolidate every bucket; tag lists that are equal, equal up to     *)
(* order, and equal as sets only.                                          *)
(***************************************************************************)
TagLists == {<<"a", "b">>, <<"b", "a">>, <<"a", "a", "b">>}

\* every tag list with an importance below the threshold, one of them with a
\* second such importance and with one at or above the threshold
ConsolInputs ==
    {[tags |-> tl, importance |-> 3] : tl \in TagLists}
        \cup {[tags |-> <<"a", "b">>, importance |-> imp] : imp \in {4, 8}}

NextConsol ==
    \/ \E t \in {"CREW_SHARED", "SESSION_TEMPORARY"}, in \in ConsolInputs :
          /\ nextId <= MaxIds
          /\ store_memory(1, "brand_author", t, Note, in.tags, in.importance)
          /\ UNCHANGED otherThanMem
    \/ \E t \in {"CREW_SHARED", "SESSION_TEMPORARY", "None"} :
          /\ manual_consolidation(1, "brand_author", t)
          /\ UNCHANGED otherThanMem
    \/ /\ clear_session_memory(1)
       /\ UNCHANGED otherThanMem
    \/ \E d \in TickDays :
          /\ Tick(d)
          /\ UNCHANGED otherThanMem

SpecConsol == Init /\ [][NextConsol]_vars

(***************************************************************************)
(* SpecShared: several MemoryManager instances on one project root.        *)
(***************************************************************************)
NextShared ==
    \/ \E i \in Instances :
          /\ MemoryManager_init(i)
          /\ UNCHANGED otherThanMem
    \/ \E i \in Instances, c \in {Note, EnumNote}, imp \in {3, 8} :
          /\ nextId <= MaxIds
          /\ store_memory(i, "writer", "CREW_SHARED", c, <<"a">>, imp)
          /\ UNCHANGED otherThanMem
    \/ \E i \in Instances :
          /\ retrieve_memory(i, "writer", "CREW_SHARED", "None", <<>>, 10)
          /\ UNCHANGED otherThanMem
    \/ \E d \in TickDays :
          /\ Tick(d)
          /\ UNCHANGED otherThanMem

SpecShared == Init /\ [][NextShared]_vars

(***************************************************************************)
(* Properties of the MemoryManager                                         *)
(***************************************************************************)
\* the level the matrix gives a role on a memory type, "NONE" for a role that
\* is not in the matrix
LevelOf(r, t) == IF r \in DOMAIN access_matrix THEN access_matrix[r][t] ELSE "NONE"

BucketsUnchanged == memories' = memories /\ files' = files

C1_StoreStep ==
    ret'.op = "store_memory" =>
        LET i == ret'.inst
            t == ret'.memory_type
        IN  /\ ret'.outcome = "ok" <=> LevelOf(ret'.role, t) \in {"READ_WRITE", "ADMIN"}
            /\ ret'.outcome # "ok" => BucketsUnchanged
            /\ ret'.outcome = "ok" =>
                  /\ Len(memories'[i][t]) = Len(memories[i][t]) + 1
                  /\ \A u \in MemoryType \ {t} : memories'[i][u] = memories[i][u]

C1_RetrieveStep ==
    ret'.op = "retrieve_memory" =>
        /\ ret'.outcome = "PermissionError"
              <=> LevelOf(ret'.role, ret'.memory_type) \notin {"READ_ONLY", "READ_WRITE", "ADMIN"}
        /\ ret'.outcome # "ok" => ret'.entries = <<>> /\ BucketsUnchanged
        /\ ret'.outcome = "ok" =>
              Range(ret'.entries) \subseteq Range(memories[ret'.inst][ret'.memory_type])

C1_ConsolidationStep ==
    ret'.op = "manual_consolidation" =>
        LET t == IF ret'.memory_type = "None" THEN "CREW_SHARED" ELSE ret'.memory_type
        IN  /\ ret'.outcome = "ok" <=> LevelOf(ret'.role, t) = "ADMIN"
            /\ ret'.outcome # "ok" => ret'.results = <<>> /\ BucketsUnchanged

C1_OutsiderStep ==
    (ret'.op \in {"store_memory", "retrieve_memory", "manual_consolidation"}
        /\ ret'.role \notin DOMAIN access_matrix)
    => ret'.outcome = "PermissionError" /\ BucketsUnchanged

\* what store_memory wrote into a bucket came from a role with write access
C1_Stored ==
    \A i \in opened, t \in MemoryType : \A k \in 1..Len(memories[i][t]) :
        LET m == memories[i][t][k]
        IN  /\ m.agent_id = "system_consolidation"
               \/ LevelOf(m.agent_id, t) \in {"READ_WRITE", "ADMIN"}
            /\ t = "EXTERNAL_CONSOLIDATED"
                  => m.agent_id \in {"brand_author", "system_consolidation"}

\* C1: store_memory, retrieve_memory and manual_consolidation succeed exactly
\* when the access matrix gives the calling role write, read and admin level
\* on the memory type; a refused call, and every call of a role that is not
\* in the matrix, raises PermissionError and leaves memory and files as they
\* were; only brand_author's entries are ever in EXTERNAL_CONSOLIDATED.
C1_AccessMatrix ==
    /\ []C1_Stored
    /\ [][C1_StoreStep /\ C1_RetrieveStep /\ C1_ConsolidationStep /\ C1_OutsiderStep]_vars

\* writer reads what brand_author stored in EXTERNAL_CONSOLIDATED
C1_Witness ==
    /\ ret.op = "retrieve_memory"
    /\ ret.role = "writer"
    /\ ret.memory_type = "EXTERNAL_CONSOLIDATED"
    /\ ret.outcome = "ok"
    /\ \E k \in 1..Len(ret.entries) : ret.entries[k].agent_id = "brand_author"

(***************************************************************************)
(* Consolidation                                                           *)
(***************************************************************************)
ConsolidationScope(t) == IF t = "None" THEN MemoryType ELSE {t}

IsConsolidationStep == ret'.op = "manual_consolidation" /\ ret'.outcome = "ok"

TagCount(tags, x) == Cardinality({k \in 1..Len(tags) : tags[k] = x})

\* the same tags with the same multiplicities, in any order
SameTagList(a, b) == \A x \in Range(a) \cup Range(b) : TagCount(a, x) = TagCount(b, x)

SameTagSet(a, b) == Range(a) = Range(b)

CandidateSet(ms) == {m \in Range(ms) : m.consolidation_candidate}

\* the claim as stated, for a call on one bucket: of any two candidates with
\* the same set of tags, at most one is still in the bucket afterwards
C2_Original ==
    [][(IsConsolidationStep /\ ret'.memory_type # "None") =>
        LET t == ret'.memory_type
            after == Range(memories'[ret'.inst][t])
        IN  \A a, b \in CandidateSet(memories[ret'.inst][t]) :
                (a # b /\ SameTagSet(a.tags, b.tags)) => ~(a \in after /\ b \in after)]_vars

C2_MergedStep ==
    IsConsolidationStep =>
        \A t \in ConsolidationScope(ret'.memory_type) \ {"SESSION_TEMPORARY"} :
            LET before == Range(memories[ret'.inst][t])
                after == Range(memories'[ret'.inst][t])
                cands == CandidateSet(memories[ret'.inst][t])
            IN  /\ \A a \in cands :
                    LET g == {b \in cands : SameTagList(a.tags, b.tags)}
                    IN  IF Cardinality(g) >= 2
                        THEN /\ g \cap after = {}
                             /\ Cardinality({x \in after \ before :
                                    /\ x.tags[Len(x.tags)] = "consolidated"
                                    /\ SameTagList(SubSeq(x.tags, 1, Len(x.tags) - 1), a.tags)
                                    /\ \A b \in g : b.importance <= x.importance
                                    /\ \E b \in g : b.importance = x.importance
                                    /\ ~x.consolidation_candidate}) = 1
                        ELSE a \in after
                /\ before \ cands \subseteq after
                /\ Cardinality(after \ before)
                      = Cardinality({g \in SUBSET cands :
                            /\ Cardinality(g) >= 2
                            /\ \E a \in g : g = {b \in cands : SameTagList(a.tags, b.tags)}})

\* C2 (amended): manual_consolidation on a bucket other than SESSION_TEMPORARY
\* replaces every group of two or more candidates whose tag lists are equal
\* up to order by exactly one record (those tags plus 'consolidated', the
\* group's maximum importance), so no two former candidates with such tag
\* lists remain; a candidate alone in its group and every non-candidate stay.
C2_Consolidation == [][C2_MergedStep]_vars

\* a consolidation of CREW_SHARED that merged something
C2_Witness ==
    /\ ret.op = "manual_consolidation"
    /\ ret.outcome = "ok"
    /\ \E k \in 1..Len(ret.results) :
          ret.results[k].memory_type = "crew_shared" /\ ret.results[k].space_saved > 0

C4_Persisted ==
    \A t \in MemoryType :
        /\ files[t].ok
        /\ _load_memory(files[t]) = memories[1][t]

\* ids of the entries of a list
IdsOf(ms) == {ms[k].id : k \in 1..Len(ms)}

\* C5 as stated: when an instance stores into a bucket in which another
\* open instance holds an entry this one never saw, the bucket file
\* afterwards is the storing instance's in-memory list and so lacks the
\* other instance's entry
C5_FileIsLastWriters ==
    [][(/\ ret'.op = "store_memory"
        /\ ret'.outcome = "ok"
        /\ \E j \in opened \ {ret'.inst} :
              IdsOf(memories[j][ret'.memory_type])
                  \ IdsOf(memories[ret'.inst][ret'.memory_type]) # {}) =>
        LET i == ret'.inst
            t == ret'.memory_type
        IN  /\ files'[t].ok
            /\ _load_memory(files'[t]) = memories'[i][t]
            /\ \A j \in opened \ {i} :
                  (IdsOf(memories[j][t]) \ IdsOf(memories[i][t]))
                      \cap IdsOf(_load_memory(files'[t])) = {}]_vars

(***************************************************************************)
(* SpecPlan: one ReasoningEngine; plans are created from the templates and *)
(* adapted.  Adaptations name the step now first or second in the plan or  *)
(* a step that does not exist.                                             *)
(***************************************************************************)
PlanTypes == plan_templates \cup {"unknown_type"}

\* the ids an adaptation may name: the steps now first and second in the
\* plan, and one that no plan has
StepRefs(plan_id) ==
    {MissingStep} \cup {plans[plan_id].steps[k].id : k \in 1..2}

DependencyLists(plan_id) == {<<>>} \cup {<<id>> : id \in StepRefs(plan_id)}

Adaptations(plan_id) ==
    {[type |-> "reschedule_step", data |-> [step_id |-> id, priority |-> 7]] :
        id \in StepRefs(plan_id)}
    \cup {[type |-> "add_parallel_step", data |-> [step_config |-> [dependencies |-> deps]]] :
        deps \in DependencyLists(plan_id)}
    \cup {[type |-> "add_parallel_step", data |-> EmptyDict]}
    \cup {[type |-> "modify_dependencies", data |-> [step_id |-> id, dependencies |-> deps]] :
        id \in StepRefs(plan_id), deps \in DependencyLists(plan_id)}
    \cup {[type |-> "adjust_priorities", data |-> [adjustments |-> [x \in {id} |-> 10]]] :
        id \in StepRefs(plan_id)}
    \cup {[type |-> "extend_duration", data |-> [step_id |-> id, additional_minutes |-> 5]] :
        id \in StepRefs(plan_id)}
    \cup {[type |-> "skip_step", data |-> [step_id |-> id]] : id \in StepRefs(plan_id)}
    \cup {[type |-> "add_quality_check", data |-> [target_step_id |-> id]] :
        id \in StepRefs(plan_id)}
    \cup {[type |-> "split_step", data |-> EmptyDict]}

\* the adaptations that took effect, over all plans
AdaptationCount(ps) ==
    IF ps = <<>> THEN 0
    ELSE LET n[k \in 0..Len(ps)] ==
                IF k = 0 THEN 0 ELSE n[k - 1] + Len(ps[k].adaptations)
         IN  n[Len(ps)]

NextPlan ==
    \/ \E plan_type \in PlanTypes :
          /\ Len(plans) + AdaptationCount(plans) < MaxPlanOps
          /\ create_plan(plan_type, "brand_author")
          /\ UNCHANGED otherThanPlan
    \/ \E plan_id \in 1..Len(plans) : \E a \in Adaptations(plan_id) :
          /\ Len(plans) + AdaptationCount(plans) < MaxPlanOps
          /\ adapt_plan_execution(plan_id, a.type, a.data)
          /\ UNCHANGED otherThanPlan
    \/ /\ adapt_plan_execution(Len(plans) + 1, "skip_step", [step_id |-> MissingStep])
       /\ UNCHANGED otherThanPlan

SpecPlan == Init /\ [][NextPlan]_vars

(***************************************************************************)
(* SpecDecide: one ReasoningEngine asked for decisions of all six types.   *)
(***************************************************************************)
ReasoningContext(content_requirements, target_personas) ==
    [content_requirements |-> content_requirements, target_personas |-> target_personas]

Contexts ==
    {ReasoningContext(cr, personas) :
        cr \in {EmptyDict, [type |-> "guide"], [type |-> "analysis"],
                [type |-> "essay", complexity |-> "high", revision_count |-> 2]},
        personas \in {<<>>, <<"Strategic Sofia">>, <<"Curious Casey", "Adaptive Alex">>,
                      <<"Dana">>}}

NextDecide ==
    \E decision_type \in DecisionType, context \in Contexts :
        /\ Len(decision_log) < MaxDecisions
        /\ make_decision(decision_type, context)
        /\ UNCHANGED otherThanPlan

SpecDecide == Init /\ [][NextDecide]_vars

\* a content string, as what the validators find in it
Content(missing, negative, prohibited, claims, complexity, focus, ethical, late) ==
    [voice_missing |-> missing, voice_negative |-> negative,
     prohibited |-> prohibited, claims |-> claims, complexity |-> complexity,
     focus |-> focus, ethical |-> ethical, afterthought |-> late]

\* content that no validator objects to
CleanContent == Content(0, 0, 0, 0, "medium", {"Adaptive Alex"}, "spread", 0)

\* empty content: no voice pattern, no ethical mention
EmptyContent == Content(4, 0, 0, 0, "high", {}, "none", 0)

\* content with five unannotated experience claims and hype
ClaimsContent == Content(2, 1, 3, 5, "high", {}, "clustered", 1)

\* content that only misses its persona
OffPersonaContent == Content(0, 0, 0, 0, "high", {}, "spread", 0)

Calls ==
    { [content |-> CleanContent, content_id |-> DocId, personas |-> <<"Adaptive Alex">>,
       types |-> ValidationType],
      [content |-> CleanContent, content_id |-> NoUuid, personas |-> <<>>,
       types |-> ValidationType],
      [content |-> EmptyContent, content_id |-> DocId, personas |-> <<>>,
       types |-> {"BRAND_VOICE", "PERSONA_ALIGNMENT"}],
      [content |-> ClaimsContent, content_id |-> NoUuid, personas |-> <<"Curious Casey">>,
       types |-> ValidationType],
      [content |-> ClaimsContent, content_id |-> DocId, personas |-> <<>>,
       types |-> {"AUTHENTICITY"}],
      [content |-> OffPersonaContent, content_id |-> DocId,
       personas |-> <<"Curious Casey", "Dana">>, types |-> ValidationType] }

\* the call the threads make at the same time, each with a content id of
\* its own
ConcurrentCalls ==
    { [content |-> ClaimsContent, content_id |-> NoUuid, personas |-> <<"Curious Casey">>,
       types |-> ValidationType] }

\* the calls begun so far
CallsBegun == Len(validation_results) + Cardinality({t \in Threads : pc[t] = "store"})

ThreadStep(t, calls) ==
    \/ \E c \in calls :
          /\ CallsBegun < MaxCalls
          /\ Validate(t, c.content, c.content_id, c.personas, c.types)
    \/ StoreResult(t)
    \/ OpenResultsFile(t)
    \/ BeginIterate(t)
    \/ EndIterate(t)
    \/ WriteResults(t)
    \/ ReturnResult(t)

(***************************************************************************)
(* SpecScore: one caller validates one content after the other.            *)
(***************************************************************************)
NextScore ==
    /\ ThreadStep(1, Calls)
    /\ UNCHANGED otherThanVal

SpecScore == Init /\ [][NextScore]_vars

(***************************************************************************)
(* SpecValidate: the threads of one process call validate_content on one   *)
(* ValidationEngine at any time.                                           *)
(***************************************************************************)
NextValidate ==
    \E t \in Threads :
        /\ ThreadStep(t, ConcurrentCalls)
        /\ UNCHANGED otherThanVal

SpecValidate == Init /\ [][NextValidate]_vars

\* every thread that is in validate_content gets to run
SpecValidateFair == SpecValidate /\ \A t \in Threads : WF_valVars(ThreadStep(t, ConcurrentCalls))

(***************************************************************************)
(* Properties of the ReasoningEngine                                       *)
(***************************************************************************)
\* C6: create_plan builds a plan for the four template names and no other;
\* content_creation has 5 steps, the other three have 3; the new plan is
\* DRAFT, its steps are PENDING, and get_plan finds it under its id
C6_CreatePlan ==
    planRet.op = "create_plan" =>
        /\ planRet.outcome = "ok" <=>
              planRet.value.plan_type \in {"content_creation", "revision_workflow",
                                           "brand_validation", "collaborative_drafting"}
        /\ planRet.outcome = "ok" =>
              LET plan == planRet.value
              IN  /\ Len(plan.steps) = IF plan.plan_type = "content_creation" THEN 5 ELSE 3
                  /\ plan.status = "DRAFT"
                  /\ \A k \in 1..Len(plan.steps) : plan.steps[k].status = "PENDING"
                  /\ plan.id = planRet.plan_id
                  /\ get_plan(plans, plan.id) = plan

C6_Witness ==
    /\ planRet.op = "create_plan"
    /\ planRet.outcome = "ok"
    /\ planRet.value.plan_type = "brand_validation"
    /\ get_plan(plans, planRet.plan_id) = planRet.value

KnownPersonas == {"Strategic Sofia", "Adaptive Alex", "Curious Casey"}

\* C7 as stated: two decisions of one type on one context are the same
\* decision, whatever was decided in between; and a content_structure
\* decision for type 'guide' is sequential with template 'step_by_step',
\* and of depth 'balanced' when no known persona is targeted
C7_StaticLookup ==
    /\ \A j, k \in 1..Len(decision_log) :
          (/\ decision_log[j].decision_type = decision_log[k].decision_type
           /\ decision_log[j].context = decision_log[k].context)
          => decision_log[j].decision = decision_log[k].decision
    /\ \A k \in 1..Len(decision_log) :
          LET e == decision_log[k]
          IN  (/\ e.decision_type = "content_structure"
               /\ Get(e.context.content_requirements, "type", "guide") = "guide")
              => /\ e.decision.reasoning_type = "SEQUENTIAL"
                 /\ e.decision.template = "step_by_step"
                 /\ (Range(e.context.target_personas) \cap KnownPersonas = {}
                        => e.decision.depth = "balanced")

StepIds(plan) == {plan.steps[k].id : k \in 1..Len(plan.steps)}

DependenciesValid(plan) ==
    \A k \in 1..Len(plan.steps) : Range(plan.steps[k].dependencies) \subseteq StepIds(plan)

\* C8 as stated: in every plan every dependency id is the id of a step of
\* the plan
C8_Original == \A p \in 1..Len(plans) : DependenciesValid(plans[p])

\* the dependency list an adaptation put into the plan as the caller gave it
SuppliedDependencies(a) ==
    CASE a.type = "modify_dependencies" -> Get(a.data, "dependencies", <<>>)
      [] a.type = "add_parallel_step" ->
            Get(Get(a.data, "step_config", EmptyDict), "dependencies", <<>>)
      [] OTHER -> <<>>

\* C8, amended: in every plan whose modify_dependencies and
\* add_parallel_step adaptations were given only ids of steps of the plan,
\* every dependency id is the id of a step of the plan; a plan that was
\* never adapted is such a plan
C8_Dependencies ==
    \A p \in 1..Len(plans) :
        (\A k \in 1..Len(plans[p].adaptations) :
            Range(SuppliedDependencies(plans[p].adaptations[k])) \subseteq StepIds(plans[p]))
        => DependenciesValid(plans[p])

C8_Witness ==
    \E p \in 1..Len(plans) :
        /\ \E k \in 1..Len(plans[p].adaptations) :
              /\ plans[p].adaptations[k].type = "modify_dependencies"
              /\ SuppliedDependencies(plans[p].adaptations[k]) # <<>>
        /\ \E k \in 1..Len(plans[p].adaptations) :
              plans[p].adaptations[k].type = "add_quality_check"
        /\ \A k \in 1..Len(plans[p].adaptations) :
              Range(SuppliedDependencies(plans[p].adaptations[k])) \subseteq StepIds(plans[p])

(***************************************************************************)
(* Properties of the ValidationEngine                                      *)
(***************************************************************************)
WeightedScore(issues) ==
    100 - 25 * CountSeverity(issues, "CRITICAL") - 15 * CountSeverity(issues, "HIGH")
        - 8 * CountSeverity(issues, "MEDIUM") - 3 * CountSeverity(issues, "LOW")

\* C9: the score of every result returned by validate_content is
\* max(0, 100 - 25*critical - 15*high - 8*medium - 3*low) over its issues,
\* lies in 0..100, and is 100 with status PASSED when there is no issue
C9_Score ==
    \A r \in {returned[t] : t \in Threads} \cup Range(validation_results) :
        r # NoResult =>
            /\ r.overall_score = IF WeightedScore(r.issues) < 0 THEN 0
                                 ELSE WeightedScore(r.issues)
            /\ r.overall_score \in 0..100
            /\ r.issues = <<>> => (r.overall_score = 100 /\ r.overall_status = "PASSED")

\* a content without issues and one whose deductions exceed 100 have been
\* validated, and the second call has returned
C9_Witness ==
    /\ \E k \in 1..Len(validation_results) : validation_results[k].issues = <<>>
    /\ \E t \in Threads :
          /\ returned[t] # NoResult
          /\ WeightedScore(returned[t].issues) < 0

\* what holds of the calls that have returned
C10_Returned ==
    \A t \in Threads :
        pc[t] = "done" =>
            /\ returned[t] # NoResult
            /\ \E k \in 1..Len(validation_results) : validation_results[k] = returned[t]
            /\ \A u \in Threads \ {t} : pc[u] = "done" => returned[u].id # returned[t].id
            /\ \A j, k \in 1..Len(validation_results) :
                  validation_results[j].id = validation_results[k].id => j = k

\* C10: every validate_content call that a thread has begun returns, and the
\* calls that have returned have returned results with pairwise distinct
\* ids, all of them in the result store
C10_ConcurrentSafe ==
    /\ []C10_Returned
    /\ \A t \in Threads : (pc[t] \notin {"idle", "done"}) ~> (pc[t] = "done")

\* all calls returned although a save was cut short by a concurrent call
C10_Witness ==
    /\ \A t \in Threads : pc[t] = "done"
    /\ Len(validation_results) = MaxCalls
    /\ ~results_file.ok

(***************************************************************************)
(* Knowledge search: files appear in the knowledge directory, the manager  *)
(* is opened or refreshed, and roles search it.                            *)
(***************************************************************************)
KnowledgeFiles ==
    {KnowledgeFile(EmptyDict, <<"a", "b">>),
     KnowledgeFile([status |-> "archived"], <<"a", "b">>),
     KnowledgeFile([title |-> <<"B">>, tags |-> << <<"b">> >>], <<"a">>)}

\* The roles that search: one that reads every type, one that may not read
\* user preferences, one that is not in the matrix.
KnowledgeRoles == {"brand_author", "researcher", "intruder"}

\* query, knowledge_types, tags and limit of a search
Searches ==
    {<<q, <<>>, <<>>, l>> : q \in {<<"b">>, <<"A", "b">>}, l \in {0, 1, 20}}
    \cup {<< <<"b">>, <<"USER_PREFERENCES", "PERSONAS">>, <<>>, 20>>,
          << <<>>, <<>>, << <<"b">> >>, 20>>}

NextKnow ==
    \/ /\ \E k \in 1..Len(KnowledgePaths), file \in KnowledgeFiles :
            /\ KnowledgePaths[k] \notin DOMAIN knowledge_files
            /\ WriteKnowledgeFile(KnowledgePaths[k], file)
       /\ UNCHANGED otherThanKnow
    \/ /\ KnowledgeManager_init
       /\ UNCHANGED otherThanKnow
    \/ /\ refresh_knowledge
       /\ UNCHANGED otherThanKnow
    \/ /\ \E agent_role \in KnowledgeRoles, s \in Searches :
            search_knowledge(agent_role, s[1], s[2], s[3], s[4])
       /\ UNCHANGED otherThanKnow

SpecKnow == Init /\ [][NextKnow]_vars

\* C11: a search returns items of the manager whose type the calling role
\* may read and whose status is not ARCHIVED, at most `limit` of them, and
\* an empty list (never an exception) for a role outside the matrix.
C11_SearchGuarded ==
    knowRet.op = "search_knowledge" =>
        /\ knowRet.outcome = "returned"
        /\ \A k \in 1..Len(knowRet.results) :
              /\ Contains(knowledge_items, knowRet.results[k])
              /\ knowledge_can_access(knowRet.agent_role,
                                      knowRet.results[k].knowledge_type, "read")
              /\ knowRet.results[k].status # "ARCHIVED"
        /\ Len(knowRet.results) <= knowRet.limit
        /\ knowRet.agent_role \notin DOMAIN knowledge_access_matrix
              => knowRet.results = <<>>

\* a researcher's search returned an item while the manager also holds a
\* user-preference item and an archived item that are left out
C11_Witness ==
    /\ knowRet.op = "search_knowledge"
    /\ knowRet.agent_role = "researcher"
    /\ knowRet.results # <<>>
    /\ \E k \in 1..Len(knowledge_items) :
          /\ knowledge_items[k].knowledge_type = "USER_PREFERENCES"
          /\ knowledge_items[k].status # "ARCHIVED"
          /\ ~Contains(knowRet.results, knowledge_items[k])

(***************************************************************************)
(* store_memory on valid and invalid input: a role outside the matrix and  *)
(* importances outside 1..10, as in test_memory_error_handling.            *)
(***************************************************************************)
StoreRoles == {"brand_author", "invalid_role"}

StoreImportances == {5, 15, 0}

NextStore ==
    \/ \E agent_role \in StoreRoles, t \in MemoryType, importance \in StoreImportances :
          /\ nextId <= MaxAccessIds
          /\ store_memory(1, agent_role, t, Note, <<"test">>, importance)
          /\ UNCHANGED otherThanMem
    \/ \E agent_role \in StoreRoles, t \in MemoryType :
          /\ retrieve_memory(1, agent_role, t, "None", <<>>, 10)
          /\ UNCHANGED otherThanMem

SpecStore == Init /\ [][NextStore]_vars

\* C12: a store_memory call by a role outside the access matrix, or with an
\* importance outside 1..10, returns False and leaves every bucket as it was.
C12_InvalidStoreReturnsFalse ==
    [][\A agent_role \in StoreRoles, t \in MemoryType, importance \in StoreImportances :
          (/\ store_memory(1, agent_role, t, Note, <<"test">>, importance)
           /\ \/ agent_role \notin DOMAIN access_matrix
              \/ importance \notin 1..10)
          => /\ ret'.outcome = "False"
             /\ memories' = memories]_vars

\* C13: when the CREW_SHARED bucket holds several records, all with the
\* same tags, they are consolidation candidates, and manual_consolidation by
\* brand_author on CREW_SHARED reports for the bucket an original_count equal
\* to their number, a smaller consolidated_count and a positive space_saved,
\* whatever their age or importance.
C13_IdenticalTagsConsolidate ==
    [][LET bucket == memories[1]["CREW_SHARED"]
       IN (/\ manual_consolidation(1, "brand_author", "CREW_SHARED")
           /\ Len(bucket) >= 2
           /\ \A a, b \in 1..Len(bucket) : bucket[a].tags = bucket[b].tags)
          => /\ \A a \in 1..Len(bucket) : bucket[a].consolidation_candidate
             /\ \E k \in 1..Len(ret'.results) :
                   /\ ret'.results[k].memory_type = MemoryTypeValue("CREW_SHARED")
                   /\ ret'.results[k].original_count = Len(bucket)
                   /\ ret'.results[k].consolidated_count < ret'.results[k].original_count
                   /\ ret'.results[k].space_saved > 0]_vars

(***************************************************************************)
(* The decision log across engine instances: decisions are made and the    *)
(* engine is opened again on the same project root.                        *)
(***************************************************************************)
LogContexts ==
    {ReasoningContext([type |-> "guide"], <<"Adaptive Alex">>),
     ReasoningContext([type |-> "analysis"], <<>>),
     ReasoningContext(EmptyDict, <<"Strategic Sofia">>)}

NextDecideLog ==
    \/ \E decision_type \in DecisionType, context \in LogContexts :
          /\ Len(decision_log) < MaxDecisions
          /\ make_decision(decision_type, context)
          /\ UNCHANGED otherThanPlan
    \/ /\ ReasoningEngine_init
       /\ UNCHANGED otherThanPlan

SpecDecideLog == Init /\ [][NextDecideLog]_vars

\* C14: a make_decision call that returns appends exactly one entry to the
\* end of the decision log; the entry carries the requested decision type
\* and the returned decision, and the entries that were in the log stay as
\* they were, in their order.
C14_DecisionLogged ==
    [][\A decision_type \in DecisionType, context \in Contexts \cup LogContexts :
          make_decision(decision_type, context)
          => /\ Len(decision_log') = Len(decision_log) + 1
             /\ SubSeq(decision_log', 1, Len(decision_log)) = decision_log
             /\ decision_log'[Len(decision_log')].decision_type = decision_type
             /\ decision_log'[Len(decision_log')].decision = planRet'.value]_vars

\* a second decision of another type has been logged behind the first
C14_Witness ==
    /\ planRet.op = "make_decision"
    /\ Len(decision_log) = 2
    /\ decision_log[1].decision_type # decision_log[2].decision_type
    /\ decision_log[2].decision = planRet.value

\* C15: an engine opened on the same project root right after a
\* make_decision call loads the log the first engine had after the call (one
\* entry more than before it), its last entry being that decision.
C15_DecisionLogPersists ==
    [][(planRet.op = "make_decision" /\ ReasoningEngine_init)
       => /\ Len(decision_log') = Len(decision_log)
          /\ decision_log'[Len(decision_log')] = decision_log[Len(decision_log)]]_vars

(***************************************************************************)
(* One plan under execution: its status and the status of its steps are    *)
(* updated, it is adapted and monitored while time passes; the same calls  *)
(* are also made for a plan, a step and an adaptation type that do not     *)
(* exist.                                                                  *)
(***************************************************************************)
RunPlanIds == {1, 2}

FirstStepId(plan_id) == plans[plan_id].steps[1].id

RunAdaptations(plan_id) ==
    {[type |-> "reschedule_step", data |-> [step_id |-> FirstStepId(plan_id), priority |-> 7]],
     [type |-> "skip_step", data |-> [step_id |-> MissingStep]],
     [type |-> "adjust_priorities",
      data |-> [adjustments |-> [x \in {FirstStepId(plan_id)} |-> None]]],
     [type |-> "split_step", data |-> EmptyDict]}

NextRun ==
    \/ /\ plans = <<>>
       /\ create_plan("brand_validation", "test_user")
       /\ UNCHANGED otherThanPlan
    \/ \E plan_id \in RunPlanIds, new_status \in {"ACTIVE", "COMPLETED"} :
          /\ update_plan_status(plan_id, new_status)
          /\ UNCHANGED otherThanPlan
    \/ \E plan_id \in 1..Len(plans) :
       \E step_id \in {FirstStepId(plan_id), MissingStep} :
       \E new_status \in {"IN_PROGRESS", "COMPLETED", "FAILED"} :
          /\ update_step_status(plan_id, step_id, new_status)
          /\ UNCHANGED otherThanPlan
    \/ /\ update_step_status(Len(plans) + 1, MissingStep, "COMPLETED")
       /\ UNCHANGED otherThanPlan
    \/ \E plan_id \in 1..Len(plans) : \E a \in RunAdaptations(plan_id) :
          /\ Len(plans) + AdaptationCount(plans) < MaxPlanOps
          /\ adapt_plan_execution(plan_id, a.type, a.data)
          /\ UNCHANGED otherThanPlan
    \/ /\ adapt_plan_execution(Len(plans) + 1, "skip_step", [step_id |-> MissingStep])
       /\ UNCHANGED otherThanPlan
    \/ \E plan_id \in RunPlanIds :
          /\ monitor_plan_execution(plan_id)
          /\ UNCHANGED otherThanPlan
    \/ /\ TickMinute(7)
       /\ UNCHANGED otherThanPlan

SpecRun == Init /\ [][NextRun]_vars

(***************************************************************************)
(* The steps of one plan: their status is updated, steps are rescheduled   *)
(* and skipped, time passes, the engine is opened again.                   *)
(***************************************************************************)
StepAdaptations(plan_id) ==
    {[type |-> "reschedule_step", data |-> [step_id |-> FirstStepId(plan_id), priority |-> 7]],
     [type |-> "reschedule_step", data |-> [step_id |-> MissingStep]],
     [type |-> "skip_step", data |-> [step_id |-> FirstStepId(plan_id)]]}

NextSteps ==
    \/ /\ plans = <<>>
       /\ create_plan("brand_validation", "test_user")
       /\ UNCHANGED otherThanPlan
    \/ \E plan_id \in 1..Len(plans) : \E step_id \in StepRefs(plan_id) :
       \E new_status \in {"IN_PROGRESS", "COMPLETED"} :
          /\ update_step_status(plan_id, step_id, new_status)
          /\ UNCHANGED otherThanPlan
    \/ \E plan_id \in 1..Len(plans) : \E a \in StepAdaptations(plan_id) :
          /\ Len(plans) + AdaptationCount(plans) < MaxPlanOps
          /\ adapt_plan_execution(plan_id, a.type, a.data)
          /\ UNCHANGED otherThanPlan
    \/ /\ TickMinute(7)
       /\ UNCHANGED otherThanPlan
    \/ /\ ReasoningEngine_init
       /\ UNCHANGED otherThanPlan

SpecSteps == Init /\ [][NextSteps]_vars

\* C16: update_plan_status, update_step_status and adapt_plan_execution
\* return False, and monitor_plan_execution an error record, for a plan, a
\* step or an adaptation type that does not exist, and a call of the three
\* that returns False has changed no plan, step or adaptation history.
C16_FailsWithoutEffect ==
    [][/\ \A plan_id \in RunPlanIds \ (1..Len(plans)) :
            /\ \A new_status \in {"ACTIVE", "COMPLETED"} :
                  update_plan_status(plan_id, new_status) => planRet'.outcome = FALSE
            /\ update_step_status(plan_id, MissingStep, "COMPLETED")
                  => planRet'.outcome = FALSE
            /\ adapt_plan_execution(plan_id, "skip_step", [step_id |-> MissingStep])
                  => planRet'.outcome = FALSE
            /\ monitor_plan_execution(plan_id) => planRet'.outcome = "error"
       /\ \A plan_id \in 1..Len(plans) :
            /\ \A new_status \in {"IN_PROGRESS", "COMPLETED", "FAILED"} :
                  update_step_status(plan_id, MissingStep, new_status)
                      => planRet'.outcome = FALSE
            /\ adapt_plan_execution(plan_id, "split_step", EmptyDict)
                  => planRet'.outcome = FALSE
       /\ (/\ planRet'.op \in {"update_plan_status", "update_step_status",
                               "adapt_plan_execution"}
           /\ planRet'.outcome = FALSE)
          => plans' = plans]_vars

\* C17: every step that is IN_PROGRESS has started_at set and every step
\* that is COMPLETED has completed_at set.
C17_StepTimestamps ==
    \A p \in 1..Len(plans) : \A k \in 1..Len(plans[p].steps) :
        LET st == plans[p].steps[k]
        IN  /\ st.status = "IN_PROGRESS" => st.started_at # None
            /\ st.status = "COMPLETED" => st.completed_at # None

\* a step has been rescheduled and started again later, another is completed
C17_Witness ==
    /\ Len(plans) = 1
    /\ \E k \in 1..Len(plans[1].adaptations) :
          plans[1].adaptations[k].type = "reschedule_step"
    /\ \E k \in 1..Len(plans[1].steps) :
          /\ plans[1].steps[k].status = "IN_PROGRESS"
          /\ plans[1].steps[k].priority = 7
          /\ plans[1].steps[k].started_at > 0
    /\ \E k \in 1..Len(plans[1].steps) : plans[1].steps[k].status = "COMPLETED"

\* C18: a plan that was set to ACTIVE and afterwards to COMPLETED has
\* started_at and completed_at set and an actual_duration above 0.
C18_ActiveThenCompleted ==
    \A p \in 1..Len(plans) :
        (plans[p].status = "COMPLETED" /\ plans[p].started_at # None)
        => /\ plans[p].completed_at # None
           /\ plans[p].actual_duration > 0

(***************************************************************************)
(* Monitoring a content_creation plan: steps fail, are blocked, started    *)
(* and completed, dependencies are rewired (to a cycle, to a missing step, *)
(* to two failed steps), a duration is extended by a negative amount, time *)
(* passes, and the plan is monitored.                                      *)
(***************************************************************************)
MonitorUpdates ==
    {<<1, "FAILED">>, <<2, "FAILED">>, <<3, "FAILED">>, <<4, "FAILED">>,
     <<4, "BLOCKED">>, <<5, "IN_PROGRESS">>, <<1, "COMPLETED">>}

MonitorAdaptations(plan_id) ==
    {[type |-> "modify_dependencies",
      data |-> [step_id |-> StepId(plan_id, "step", 5),
                dependencies |-> <<StepId(plan_id, "step", 3), StepId(plan_id, "step", 4)>>]],
     [type |-> "modify_dependencies",
      data |-> [step_id |-> StepId(plan_id, "step", 1),
                dependencies |-> <<StepId(plan_id, "step", 5), MissingStep>>]],
     [type |-> "extend_duration",
      data |-> [step_id |-> StepId(plan_id, "step", 1), additional_minutes |-> -100]]}

NextMonitor ==
    \/ /\ plans = <<>>
       /\ create_plan("content_creation", "test_user")
       /\ UNCHANGED otherThanPlan
    \/ \E plan_id \in 1..Len(plans) : \E u \in MonitorUpdates :
          /\ update_step_status(plan_id, StepId(plan_id, "step", u[1]), u[2])
          /\ UNCHANGED otherThanPlan
    \/ \E plan_id \in 1..Len(plans) : \E a \in MonitorAdaptations(plan_id) :
          /\ Len(plans) + AdaptationCount(plans) < MaxPlanOps
          /\ adapt_plan_execution(plan_id, a.type, a.data)
          /\ UNCHANGED otherThanPlan
    \/ \E plan_id \in 1..Len(plans) :
          /\ monitor_plan_execution(plan_id)
          /\ UNCHANGED otherThanPlan
    \/ /\ TickMinute(7)
       /\ UNCHANGED otherThanPlan

SpecMonitor == Init /\ [][NextMonitor]_vars

Monitored == planRet.op = "monitor_plan_execution" /\ planRet.outcome = "ok"

\* 100 - 20*failed - 15*blocked - 10*overdue - 10*violations for the plan as
\* it is now: overdue is in progress for more than 1.2 times the estimate,
\* a violation is a dependency of a step in progress on a step of the plan
\* that is not completed
RawHealth(plan) ==
    LET n == Len(plan.steps)
        failed == {k \in 1..n : plan.steps[k].status = "FAILED"}
        blocked == {k \in 1..n : plan.steps[k].status = "BLOCKED"}
        overdue == {k \in 1..n :
                        /\ plan.steps[k].status = "IN_PROGRESS"
                        /\ plan.steps[k].started_at # None
                        /\ 10 * (minute - plan.steps[k].started_at)
                              > 12 * plan.steps[k].estimated_duration}
        violations == {<<k, j, d>> \in (1..n) \X (1..n) \X (1..n) :
                        /\ plan.steps[k].status = "IN_PROGRESS"
                        /\ j \in 1..Len(plan.steps[k].dependencies)
                        /\ plan.steps[d].id = plan.steps[k].dependencies[j]
                        /\ \A e \in 1..(d - 1) : plan.steps[e].id # plan.steps[d].id
                        /\ plan.steps[d].status # "COMPLETED"}
    IN  100 - 20 * Cardinality(failed) - 15 * Cardinality(blocked)
            - 10 * Cardinality(overdue) - 10 * Cardinality(violations)

\* C19: the health score of monitor_plan_execution is
\* max(0, 100 - 20*failed - 15*blocked - 10*overdue - 10*violations), lies in
\* 0..100, and the status is healthy from 80, warning from 60 to 79 and
\* critical below 60.
C19_HealthArithmetic ==
    [][\A plan_id \in 1..Len(plans) :
          (monitor_plan_execution(plan_id) /\ planRet'.outcome = "ok") =>
              LET health == planRet'.value.execution_health
                  raw == RawHealth(plans[plan_id])
              IN  /\ health.health_score = IF raw < 0 THEN 0 ELSE raw
                  /\ health.health_score \in 0..100
                  /\ health.status = "healthy" <=> health.health_score >= 80
                  /\ health.status = "warning" <=>
                        (health.health_score >= 60 /\ health.health_score < 80)
                  /\ health.status = "critical" <=> health.health_score < 60]_vars

\* monitoring found four failed steps and a step in progress that is overdue
\* and depends on two failed steps: the deductions exceed 100 and the score
\* is held at 0
C19_Witness ==
    /\ Monitored
    /\ RawHealth(plans[planRet.plan_id]) < 0
    /\ planRet.value.execution_health.health_score = 0
    /\ planRet.value.progress.failed_steps = 4

\* C20: the completion estimate of monitor_plan_execution is never negative
\* and never more than the sum of the estimated durations of the PENDING and
\* IN_PROGRESS steps, also with cyclic or missing dependencies.
C20_EstimateBounded ==
    [][\A plan_id \in 1..Len(plans) :
          (monitor_plan_execution(plan_id) /\ planRet'.outcome = "ok") =>
              LET plan == plans[plan_id]
                  sum[k \in 0..Len(plan.steps)] ==
                      IF k = 0 THEN 0
                      ELSE sum[k - 1]
                           + IF plan.steps[k].status \in {"PENDING", "IN_PROGRESS"}
                             THEN plan.steps[k].estimated_duration
                             ELSE 0
                  estimated_minutes == planRet'.value.estimated_completion.estimated_minutes
              IN  /\ estimated_minutes >= 0
                  /\ estimated_minutes <= sum[Len(plan.steps)]]_vars

(***************************************************************************)
(* SpecHistory: one caller validates contents while time passes and asks   *)
(* for the validation history of a content.                                *)
(***************************************************************************)
\* the content id of test_content_validation_history, one that is given to
\* no validation, and another validated content
HistoryContentIds == {DocId, Uuid(-5), Uuid(-6)}

HistoryCalls ==
    { [content |-> CleanContent, content_id |-> DocId, personas |-> <<>>,
       types |-> {"BRAND_VOICE"}],
      [content |-> EmptyContent, content_id |-> DocId, personas |-> <<>>,
       types |-> {"BRAND_VOICE"}],
      [content |-> CleanContent, content_id |-> Uuid(-6), personas |-> <<>>,
       types |-> {"BRAND_VOICE"}] }

NextHistory ==
    \/ /\ ThreadStep(1, HistoryCalls)
       /\ UNCHANGED otherThanVal
    \/ /\ TickValidation
       /\ UNCHANGED otherThanVal
    \/ /\ \E content_id \in HistoryContentIds : get_content_validation_history(content_id)
       /\ UNCHANGED otherThanVal

SpecHistory == Init /\ [][NextHistory]_vars

\* C21 as stated: get_content_validation_history returns exactly the stored
\* results of the content, the most recently validated first, and nothing
\* for a content that was never validated
C21_HistoryNewestFirst ==
    [][\A content_id \in HistoryContentIds :
          get_content_validation_history(content_id) =>
              LET results == history'.results
              IN  /\ \A k \in 1..Len(results) : results[k].content_id = content_id
                  /\ \A k \in 1..Len(validation_results) :
                        validation_results[k].content_id = content_id
                        => Cardinality({j \in 1..Len(results) :
                                          results[j] = validation_results[k]}) = 1
                  /\ \A j, k \in 1..Len(results) :
                        j < k => results[j].validated_at >= results[k].validated_at]_vars


(***************************************************************************)
(* SpecLlm: one LLMManager serves the crew's calls while models come and   *)
(* go and the configuration file is edited and reloaded.                   *)
(***************************************************************************)
\* a role mapped with a tertiary and no backup
NoBackupLlmConfig ==
    [role_llm_mapping |->
        [writer |-> [primary |-> [model |-> "m1", temperature |-> 1],
                     tertiary |-> [model |-> "m3"]]],
     default_llm |-> [model |-> "m0"]]

LlmConfigs == {FullLlmConfig, NoBackupLlmConfig}

\* 'writer' is mapped, 'editor' is not
LlmRoles == {"writer", "editor"}

\* no task-level configuration, the role's model at another temperature,
\* and another model
TaskLlmConfigs == {EmptyDict, [model |-> "m1", temperature |-> 9], [model |-> "m4"]}

LlmModels == {"m0", "m1", "m2", "m3", "m4"}

NextLlm ==
    \/ /\ \E role \in LlmRoles, task_llm_config \in TaskLlmConfigs, up \in SUBSET LlmModels :
             /\ nextLlm <= MaxLlmCalls
             /\ get_llm_for_role(role, task_llm_config, up)
       /\ UNCHANGED otherThanLlm
    \/ /\ reload_config
       /\ UNCHANGED otherThanLlm
    \/ /\ \E config \in LlmConfigs : WriteLlmConfig(config)
       /\ UNCHANGED otherThanLlm

SpecLlm == Init /\ [][NextLlm]_vars

\* the LLM has the parameters the configuration gives
BuiltFrom(llm, config) ==
    /\ DOMAIN config # {}
    /\ llm.model = Get(config, "model", "")
    /\ llm.temperature = Get(config, "temperature", 1)

\* C22 as stated: with a task-level configuration the LLM returned has the
\* parameters of that configuration or of a candidate of its failover chain
\* (the role's backup or tertiary, the default); without one, a mapped role
\* whose primary answers gets the primary's model
C22_TaskConfigFirst ==
    [][\A role \in LlmRoles, task_llm_config \in TaskLlmConfigs, up \in SUBSET LlmModels :
          (get_llm_for_role(role, task_llm_config, up) /\ llmRet'.outcome = "ok") =>
              LET llm == llmRet'.llm
                  role_config == role_config_of(llm_config, role)
              IN  /\ DOMAIN task_llm_config # {} =>
                        \/ BuiltFrom(llm, task_llm_config)
                        \/ BuiltFrom(llm, Get(role_config, "backup", EmptyDict))
                        \/ BuiltFrom(llm, Get(role_config, "tertiary", EmptyDict))
                        \/ BuiltFrom(llm, Get(llm_config, "default_llm", EmptyDict))
                  /\ (/\ DOMAIN task_llm_config = {}
                      /\ "primary" \in DOMAIN role_config
                      /\ role_config.primary.model \in up)
                     => llm.model = role_config.primary.model]_vars


\* the candidate is not configured, cannot be constructed or does not
\* answer the health check
CandidateFailed(config, up) ==
    \/ DOMAIN config = {}
    \/ ~_create_single_llm(config, 0).ok
    \/ ~_test_llm(_create_single_llm(config, 0).llm, up)

\* the primary of a call
PrimaryOf(role, task_llm_config) ==
    IF DOMAIN task_llm_config # {} THEN task_llm_config
    ELSE IF "primary" \in DOMAIN role_config_of(llm_config, role)
    THEN role_config_of(llm_config, role).primary
    ELSE Get(llm_config, "default_llm", EmptyDict)

\* C29 as stated: a later candidate of primary, backup, tertiary, default is
\* returned only if every earlier one was not configured, could not be
\* constructed or failed its health check; an LLM that came from the
\* failover is not cached, and the cache gains only an LLM that has just
\* passed the health check as primary
C29_FailoverOrder ==
    [][\A role \in LlmRoles, task_llm_config \in TaskLlmConfigs, up \in SUBSET LlmModels :
          (get_llm_for_role(role, task_llm_config, up) /\ llmRet'.outcome = "ok") =>
              LET via == llmRet'.via
                  role_config == role_config_of(llm_config, role)
                  primary == PrimaryOf(role, task_llm_config)
                  backup == Get(role_config, "backup", EmptyDict)
                  tertiary == Get(role_config, "tertiary", EmptyDict)
              IN  /\ via \in {"backup", "tertiary", "default"} =>
                        /\ CandidateFailed(primary, up)
                        /\ _llm_cache' = _llm_cache
                  /\ via \in {"tertiary", "default"} => CandidateFailed(backup, up)
                  /\ via = "default" => CandidateFailed(tertiary, up)
                  /\ via = "primary" =>
                        /\ ~CandidateFailed(primary, up)
                        /\ _llm_cache' = Put(_llm_cache, cache_key(role, primary), llmRet'.llm)
                  /\ via = "cache" => _llm_cache' = _llm_cache]_vars


\* C23 as stated: a step that is in progress or completed depends only on
\* completed steps of its plan
C23_DependencyOrder ==
    \A p \in 1..Len(plans) :
        LET steps == plans[p].steps
        IN  \A k, d \in 1..Len(steps) :
                (/\ steps[k].status \in {"IN_PROGRESS", "COMPLETED"}
                 /\ \E j \in 1..Len(steps[k].dependencies) :
                        steps[k].dependencies[j] = steps[d].id)
                => steps[d].status = "COMPLETED"


StepDurationSum(plan) ==
    LET sum[k \in 0..Len(plan.steps)] ==
            IF k = 0 THEN 0 ELSE sum[k - 1] + plan.steps[k].estimated_duration
    IN  sum[Len(plan.steps)]

\* C24 as stated: a plan's estimated_duration is the sum of the
\* estimated_duration of its steps
C24_DurationIsSum ==
    \A p \in 1..Len(plans) : plans[p].estimated_duration = StepDurationSum(plans[p])


\* C25 as stated: a retrieve_memory call leaves the entries of every bucket
\* of the MemoryManager, and their order, as they were
C25_RetrieveReadOnly ==
    [][\A i \in Instances :
          retrieve_memory(i, "writer", "CREW_SHARED", "None", <<>>, 10)
          => memories' = memories]_vars


(***************************************************************************)
(* SpecUpdate: one KnowledgeManager whose items are updated through        *)
(* update_knowledge_item and refreshed, while files are also written from  *)
(* outside.                                                                *)
(***************************************************************************)
\* a file without frontmatter and one with a title and a tag
UpdateFiles ==
    {KnowledgeFile(EmptyDict, <<"a", "b">>),
     KnowledgeFile([title |-> <<"B">>, tags |-> << <<"b">> >>], <<"a">>)}

\* a role that may write every type, one that may write none, and one that
\* is not in the matrix
UpdateRoles == {"brand_author", "researcher", "intruder"}

\* no metadata, a value that is no KnowledgeStatus, and a new status with
\* new tags
UpdateMetadata ==
    {EmptyDict,
     [status |-> "bogus", tags |-> << <<"t">> >>],
     [status |-> "deprecated", tags |-> << <<"t">> >>]}

NextUpdate ==
    \/ /\ \E k \in 1..Len(KnowledgePaths), file \in UpdateFiles :
            WriteKnowledgeFile(KnowledgePaths[k], file)
       /\ UNCHANGED otherThanKnow
    \/ /\ refresh_knowledge
       /\ UNCHANGED otherThanKnow
    \/ /\ \E agent_role \in UpdateRoles, k \in 1..Len(KnowledgePaths),
             metadata \in UpdateMetadata, write_fails \in BOOLEAN :
            /\ VersionsBelow(knowledge_items, KnowledgePaths[k], MaxPatch)
            /\ update_knowledge_item(agent_role, KnowledgePaths[k], <<"c">>, metadata,
                                     write_fails)
       /\ UNCHANGED otherThanKnow

SpecUpdate == Init /\ [][NextUpdate]_vars

\* C26 as stated: an update_knowledge_item call that returns False or
\* raises leaves every item as it was
C26_UpdateAllOrNothing ==
    [][\A agent_role \in UpdateRoles, k \in 1..Len(KnowledgePaths),
         metadata \in UpdateMetadata, write_fails \in BOOLEAN :
          (/\ update_knowledge_item(agent_role, KnowledgePaths[k], <<"c">>, metadata,
                                    write_fails)
           /\ knowRet'.outcome # "True")
          => knowledge_items' = knowledge_items]_vars


\* version, content and content_hash of every item
Versions(items) ==
    [k \in 1..Len(items) |->
        [id |-> items[k].id, version |-> items[k].version, content |-> items[k].content,
         content_hash |-> items[k].content_hash]]

\* C27 as stated: a refresh with no file written from outside since the last
\* refresh or update_knowledge_item leaves version, content and content_hash
\* of every item as they were
C27_RefreshKeepsVersions ==
    [][(refresh_knowledge /\ written_outside = {})
       => Versions(knowledge_items') = Versions(knowledge_items)]_vars


\* C28 as stated: once every validate_content call has returned, the results
\* file holds every result of the result store, whole
C28_FileHoldsStore ==
    (\A t \in Threads : pc[t] \in {"idle", "done"}) =>
        /\ results_file.ok
        /\ results_file.data =
              [k \in 1..Len(validation_results) |-> result_to_dict(validation_results[k])]


\* C30: no two steps of a plan share an id, whatever adaptations the plan
\* went through
C30_StepIdsUnique ==
    \A p \in 1..Len(plans) :
        \A j, k \in 1..Len(plans[p].steps) :
            plans[p].steps[j].id = plans[p].steps[k].id => j = k

\* a plan that got two parallel steps, or a parallel step and a quality
\* check, after its template's steps
C30_Witness ==
    \E p \in 1..Len(plans) :
        /\ Len(plans[p].adaptations) = 2
        /\ \E j, k \in 1..Len(plans[p].steps) :
              /\ j < k
              /\ plans[p].steps[j].id.kind = "parallel"
              /\ plans[p].steps[k].id.kind \in {"parallel", "quality"}


=============================================================================
